---- MODULE Spec2Model ----
(***************************************************************************)
(* Model of the request/response core of the er-coap stack:                *)
(*   - the blocking client request engine (er-coap-blocking-api.c),        *)
(*   - the REST resource registry and dispatcher (rest-engine.c),          *)
(*   - the periodic resources and their timers (rest-engine.c),            *)
(*   - the uIPv6 transport with its DTLS channel, the parsing, printing    *)
(*     and comparison of endpoints, and the PSK lookup of the DTLS library *)
(*     (coap-uip.c) with the LwM2M security object as credential source.   *)
(* Each protothread slice (from a resume to the next yield or exit) and    *)
(* each run-to-completion function is one action.                          *)
(***************************************************************************)
EXTENDS Integers, Sequences, FiniteSets, TLC

(***************************************************************************)
(* Bounds of the model and program constants.                              *)
(***************************************************************************)
\* Highest Block2 number the peer puts in a response.
MaxBlockNum == 2
\* COAP_MAX_ATTEMPTS, a configuration macro of the build: the number of
\* mismatched blocks after which the do-loop is left.
COAP_MAX_ATTEMPTS == 2
\* Number of resources that get registered.
MaxResources == 2
\* Number of expiries the timer service delivers for one timer.
MaxExpiries == 2

\* Null pointers: a transaction is named by its (non-zero) mid, a response by
\* the record of its Block2 fields.
NULL == 0
NO_RESPONSE == [null |-> TRUE]
NO_REQUEST == [null |-> TRUE, request |-> TRUE]
\* resource->periodic == NULL, and a timer's user data before it is set.
NO_PERIODIC == [null |-> TRUE, periodic |-> TRUE]
NO_RESOURCE == [null |-> TRUE, resource |-> TRUE]
\* ep == NULL
NO_ENDPOINT == [null |-> TRUE, endpoint |-> TRUE]

\* The CoAP ports, and UIP_HTONS on a little-endian host: ports are kept in
\* network byte order.
COAP_DEFAULT_PORT == 5683
COAP_DEFAULT_SECURE_PORT == 5684
UIP_HTONS(n) == ((n % 256) * 256) + ((n \div 256) % 256)
SERVER_LISTEN_PORT == UIP_HTONS(COAP_DEFAULT_PORT)
SERVER_LISTEN_SECURE_PORT == UIP_HTONS(COAP_DEFAULT_SECURE_PORT)

\* IPv6 addresses are eight 16-bit groups: 2001:db8::1 and fe80::2.
IpAddrs == {<<8193, 3512, 0, 0, 0, 0, 0, 1>>, <<65152, 0, 0, 0, 0, 0, 0, 2>>}
Ports == {SERVER_LISTEN_PORT, SERVER_LISTEN_SECURE_PORT}
Payloads == {"m1", "m2"}

\* The processes that can run a blocking request; Client is the one whose
\* call the single-call specification follows.
Procs == {"client", "other"}
Client == "client"

VARIABLES
  \* ---- blocking request engine -------------------------------------
  pc,            \* per process: position of the protothread state->pt:
                 \*   "idle" (not started), "waiting" (yielded at
                 \*   PT_YIELD_UNTIL), "exited" (PT_EXIT: the call failed),
                 \*   "ended" (PT_END: the call is done)
  block_num,     \* state->block_num
  response,      \* state->response
  transaction,   \* state->transaction (the mid it was allocated for, or NULL)
  polled,        \* a PROCESS_EVENT_POLL is pending for state->process
  more,          \* static uint8_t more
  res_block,     \* static uint32_t res_block
  block_error,   \* static uint8_t block_error
  request,       \* the caller's request packet: mid and Block2 option
  current_mid,   \* message id counter behind coap_get_mid()
  open,          \* transactions sent and not yet completed (by mid)
  sent,          \* per process: requests handed to coap_send_transaction
  callbacks,     \* per process: responses request_callback was invoked with
  rcvd,          \* per process: what each completed transaction delivered
  alloc_failed,  \* per process: coap_new_transaction returned NULL
  \* ---- REST engine --------------------------------------------------
  is_initialized,    \* static uint8_t is_initialized
  restful_services,  \* LIST(restful_services): resources in list order
  rest_request,      \* the request of the last dispatch (or NULL)
  status_log,        \* REST.set_response_status calls of the last dispatch
  invoked,           \* method handlers invoked by the last dispatch
  subscribed,        \* REST.subscription_handler calls of the last dispatch
  rest_resource,     \* the local `resource` when the last dispatch returned
  rest_result,       \* return value of the last dispatch
  rest_calls,        \* every call the last dispatch made, in program order
  \* ---- periodic resources -------------------------------------------
  restful_periodic_services,  \* LIST(restful_periodic_services)
  coap_timers,   \* the periodic_timer of every periodic descriptor that was
                 \* armed, in the order of arming: callback, user data,
                 \* interval of the last arm, number of pending arms
  expired,       \* per timer: expiries the timer service has delivered
  handled,       \* per timer: calls of the resource's periodic_handler
  \* ---- transport ------------------------------------------------------
  udp_conn,      \* static struct uip_udp_conn *udp_conn
  dtls_conn,     \* static struct uip_udp_conn *dtls_conn
  dtls_context,  \* static dtls_context_t *dtls_context
  dtls_peers,    \* the peers of the DTLS context: per address and port
                 \*   "none", "handshake" or "connected"
  rpl_conf,      \* UIP_CONF_IPV6_RPL of the build
  rpl_dag,       \* rpl_get_any_dag()
  transport_op,  \* the transport operation that ran last, with its argument
  udp_out,       \* its uip_udp_packet_sendto calls on udp_conn
  dtls_out,      \* its dtls_write calls
  dtls_in,       \* its dtls_handle_message calls
  coap_received, \* its coap_receive calls
  connected_result, \* its return value, for coap_endpoint_is_connected
  \* ---- endpoint texts ---------------------------------------------------
  parse_text,    \* the text of the last coap_endpoint_parse call
  parse_prior,   \* *ep when it was called
  parse_ep,      \* *ep when it returned
  parse_result,  \* its return value
  printed_ep,    \* the endpoint whose coap_endpoint_print output the text
                 \* is, NO_ENDPOINT for any other text
  endpoint_op,   \* the last coap_endpoint_cmp or coap_endpoint_copy call,
                 \* with its arguments and what it returned or wrote
  \* ---- keystore ------------------------------------------------------
  dtls_keystore, \* static const coap_keystore_t *dtls_keystore
  instances,     \* static lwm2m_security_value_t instances[MAX_COUNT]
  instances_list, \* LIST(instances_list): slots of instances in list order
  psk_op,        \* the get_psk_info call of the DTLS library that is on
                 \* record: its arguments, return value and result buffer
  pool_op        \* the last call of lwm2m_security_init, create_instance or
                 \* delete_instance: its argument, what it returned and
                 \* the array and the list it found

blocking_vars == <<pc, block_num, response, transaction, polled, more,
                   res_block, block_error, request, current_mid, open, sent,
                   callbacks, rcvd, alloc_failed>>
timer_vars == <<restful_periodic_services, coap_timers, expired, handled>>
rest_vars == <<is_initialized, restful_services, rest_request, status_log,
               invoked, subscribed, rest_resource, rest_result, rest_calls,
               timer_vars>>
transport_vars == <<udp_conn, dtls_conn, dtls_context, dtls_peers, rpl_conf,
                    rpl_dag, transport_op, udp_out, dtls_out, dtls_in,
                    coap_received, connected_result>>
parse_vars == <<parse_text, parse_prior, parse_ep, parse_result, printed_ep,
                endpoint_op>>
keystore_vars == <<dtls_keystore, instances, instances_list, psk_op,
                   pool_op>>
vars == <<blocking_vars, rest_vars, transport_vars, parse_vars,
          keystore_vars>>

\* What the actions of one part leave alone.
non_blocking_vars == <<rest_vars, transport_vars, parse_vars, keystore_vars>>
non_rest_vars == <<blocking_vars, transport_vars, parse_vars, keystore_vars>>
non_transport_vars == <<blocking_vars, rest_vars, parse_vars,
                        keystore_vars>>
non_parse_vars == <<blocking_vars, rest_vars, transport_vars, keystore_vars>>
non_keystore_vars == <<blocking_vars, rest_vars, transport_vars, parse_vars>>

(***************************************************************************)
(* Blocking request engine.                                                *)
(***************************************************************************)
\* What a completed transaction can hand to the callback: a response with a
\* Block2 option or a response without one (or NULL: NO_RESPONSE).
Block2Responses == [has_block2 : {TRUE}, block2_num : 0..MaxBlockNum,
                    block2_more : {0, 1}]
PlainResponse == [has_block2 |-> FALSE, block2_num |-> 0, block2_more |-> 0]
Responses == Block2Responses \cup {PlainResponse}

\* The Block2 option of a request packet: absent, or set with block number,
\* `more' flag and block size.
NoBlock2 == [present |-> FALSE, num |-> 0, more |-> 0, size |-> 0]
REST_MAX_CHUNK_SIZE == 64
coap_set_header_block2(num, more_flag, size) ==
  [present |-> TRUE, num |-> num, more |-> more_flag, size |-> size]

\* coap_get_header_block2(state->response, &res_block, &more, NULL, NULL):
\* the out-parameters are written only when the option is present.
coap_get_header_block2(resp, old_num, old_more) ==
  IF resp.has_block2
  THEN [num |-> resp.block2_num, more |-> resp.block2_more]
  ELSE [num |-> old_num, more |-> old_more]

\* coap_get_mid(): a fresh message id.
coap_get_mid == current_mid + 1

\* Variant of RequestBlock2: the option is never set.
RequestBlock2_Never(p, bn) == request[p].block2

\* if(state->block_num > 0) { coap_set_header_block2(request,
\* state->block_num, 0, REST_MAX_CHUNK_SIZE); }: the Block2 option of the
\* request packet of p that goes out with cursor bn.
RequestBlock2(p, bn) ==
  IF bn > 0 THEN coap_set_header_block2(bn, 0, REST_MAX_CHUNK_SIZE)
  ELSE request[p].block2

\* Variant of RequestIteration: the request goes out although the
\* transaction could not be allocated.
RequestIteration_SendAnyway(p, bn, ok) ==
  LET mid == coap_get_mid
      blk == RequestBlock2(p, bn)
      req == [mid |-> mid, block2 |-> blk]
  IN /\ current_mid' = mid
     /\ request' = [request EXCEPT ![p] = req]
     /\ sent' = [sent EXCEPT ![p] = Append(@, req)]
     /\ IF ok
        THEN /\ transaction' = [transaction EXCEPT ![p] = mid]
             /\ open' = open \cup {mid}
             /\ alloc_failed' = alloc_failed
             /\ pc' = [pc EXCEPT ![p] = "waiting"]
        ELSE /\ transaction' = [transaction EXCEPT ![p] = NULL]
             /\ open' = open
             /\ alloc_failed' = [alloc_failed EXCEPT ![p] = TRUE]
             /\ pc' = [pc EXCEPT ![p] = "exited"]

\* One pass through the top of the do-loop for process p with cursor bn:
\* take a mid, allocate the transaction (ok tells whether coap_new_transaction
\* succeeds), set Block2 when bn > 0, send and yield; or PT_EXIT when the
\* allocation fails.
RequestIteration(p, bn, ok) ==
  LET mid == coap_get_mid
      blk == RequestBlock2(p, bn)
      req == IF ok THEN [mid |-> mid, block2 |-> blk]
                   ELSE [mid |-> mid, block2 |-> request[p].block2]
  IN /\ current_mid' = mid
     /\ request' = [request EXCEPT ![p] = req]
     /\ IF ok
        THEN /\ transaction' = [transaction EXCEPT ![p] = mid]
             /\ sent' = [sent EXCEPT ![p] = Append(@, req)]
             /\ open' = open \cup {mid}
             /\ alloc_failed' = alloc_failed
             /\ pc' = [pc EXCEPT ![p] = "waiting"]
        ELSE /\ transaction' = [transaction EXCEPT ![p] = NULL]
             /\ sent' = sent
             /\ open' = open
             /\ alloc_failed' = [alloc_failed EXCEPT ![p] = TRUE]
             /\ pc' = [pc EXCEPT ![p] = "exited"]

\* PT_BEGIN up to the first yield (or exit).
BlockingStart(p) ==
  /\ pc[p] = "idle"
  /\ block_num' = [block_num EXCEPT ![p] = 0]
  /\ response' = [response EXCEPT ![p] = NO_RESPONSE]
  /\ more' = 0
  /\ res_block' = 0
  /\ block_error' = 0
  /\ \E ok \in BOOLEAN : RequestIteration(p, 0, ok)
  /\ UNCHANGED <<polled, callbacks, rcvd>>
  /\ UNCHANGED non_blocking_vars

\* coap_blocking_request_callback: the transaction of p completes and hands
\* over resp (NULL, here NO_RESPONSE, when the retransmissions are exhausted).
BlockingCallback(p, resp) ==
  /\ pc[p] = "waiting"
  /\ transaction[p] \in open
  /\ open' = open \ {transaction[p]}
  /\ response' = [response EXCEPT ![p] = resp]
  /\ polled' = [polled EXCEPT ![p] = TRUE]
  /\ rcvd' = [rcvd EXCEPT ![p] = Append(@, resp)]
  /\ UNCHANGED <<pc, block_num, transaction, more, res_block, block_error,
                 request, current_mid, sent, callbacks, alloc_failed>>
  /\ UNCHANGED non_blocking_vars

\* Variant of HandleBlock: a delivered block clears the error counter.
HandleBlock_ResetErrors(p, num) ==
  IF num = block_num[p]
  THEN [block_num |-> block_num[p] + 1, block_error |-> 0,
        callbacks |-> Append(callbacks[p], response[p])]
  ELSE [block_num |-> block_num[p], block_error |-> (block_error + 1) % 256,
        callbacks |-> callbacks[p]]

\* Variant of HandleBlock: the cursor is not advanced after the callback.
HandleBlock_NoAdvance(p, num) ==
  IF num = block_num[p]
  THEN [block_num |-> block_num[p], block_error |-> block_error,
        callbacks |-> Append(callbacks[p], response[p])]
  ELSE [block_num |-> block_num[p], block_error |-> (block_error + 1) % 256,
        callbacks |-> callbacks[p]]

\* if(res_block == state->block_num) { request_callback(...); ++block_num }
\* else { ++block_error }: the cursor, error counter and callback log after
\* a response whose block number was read as num.
HandleBlock(p, num) ==
  IF num = block_num[p]
  THEN [block_num |-> block_num[p] + 1, block_error |-> block_error,
        callbacks |-> Append(callbacks[p], response[p])]
  ELSE [block_num |-> block_num[p], block_error |-> (block_error + 1) % 256,
        callbacks |-> callbacks[p]]

\* Variant of LoopAgain: the loop condition forgets the `more' flag.
LoopAgain_IgnoreMore(m, errs) == errs < COAP_MAX_ATTEMPTS

\* while(more && block_error < COAP_MAX_ATTEMPTS)
LoopAgain(m, errs) == m # 0 /\ errs < COAP_MAX_ATTEMPTS

\* Variant of ServerNotResponding: the request is sent again instead of
\* leaving the protothread.
ServerNotResponding_Retry(p) ==
  /\ RequestIteration(p, block_num[p], TRUE)
  /\ UNCHANGED <<block_num, more, res_block, block_error, callbacks>>

\* if(!state->response) { PT_EXIT(&state->pt); }
ServerNotResponding(p) ==
  /\ pc' = [pc EXCEPT ![p] = "exited"]
  /\ UNCHANGED <<block_num, transaction, more, res_block, block_error,
                 request, current_mid, open, sent, callbacks, alloc_failed>>

\* process_poll(state->process) called by anything but the completion
\* callback: a poll event for p becomes pending while its transaction is on
\* its way.
ProcessPoll(p) ==
  /\ pc[p] = "waiting"
  /\ ~polled[p]
  /\ polled' = [polled EXCEPT ![p] = TRUE]
  /\ UNCHANGED <<pc, block_num, response, transaction, more, res_block,
                 block_error, request, current_mid, open, sent, callbacks,
                 rcvd, alloc_failed>>
  /\ UNCHANGED non_blocking_vars

\* Variant of ResumesOnPoll: the protothread goes on at any event.
ResumesOnPoll_AnyEvent(p) == pc[p] = "waiting"

\* PT_YIELD_UNTIL(&state->pt, ev == PROCESS_EVENT_POLL): the protothread of p
\* goes on when it is scheduled with a poll event.
ResumesOnPoll(p) == pc[p] = "waiting" /\ polled[p]

\* The protothread resumed by the poll event: from PT_YIELD_UNTIL to the next
\* yield, PT_EXIT or PT_END.
BlockingResume(p) ==
  /\ ResumesOnPoll(p)
  /\ polled' = [polled EXCEPT ![p] = FALSE]
  /\ UNCHANGED <<response, rcvd>>
  /\ UNCHANGED non_blocking_vars
  /\ IF response[p] = NO_RESPONSE
     THEN ServerNotResponding(p)
     ELSE LET hdr == coap_get_header_block2(response[p], res_block, more)
              nxt == HandleBlock(p, hdr.num)
          IN /\ res_block' = hdr.num
             /\ more' = hdr.more
             /\ block_num' = [block_num EXCEPT ![p] = nxt.block_num]
             /\ block_error' = nxt.block_error
             /\ callbacks' = [callbacks EXCEPT ![p] = nxt.callbacks]
             /\ IF LoopAgain(hdr.more, nxt.block_error)
                THEN \E ok \in BOOLEAN : RequestIteration(p, nxt.block_num, ok)
                ELSE /\ pc' = [pc EXCEPT ![p] = "ended"]
                     /\ UNCHANGED <<transaction, request, current_mid, open,
                                    sent, alloc_failed>>

(***************************************************************************)
(* REST engine: resource registry and dispatcher.                          *)
(***************************************************************************)
\* C strings are sequences of characters; reading one past the last
\* character of a terminated string yields NUL.
NUL == "NUL"
CharAt(s, i) == IF i <= Len(s) THEN s[i] ELSE NUL
strlen(s) == Len(s)

\* strncmp(s1, s2, n): 0 when the first n characters agree (or both strings
\* end, together, before that), non-zero otherwise.
strncmp(s1, s2, n) ==
  IF \E i \in 1..n : /\ CharAt(s1, i) # CharAt(s2, i)
                     /\ \A j \in 1..(i - 1) : /\ CharAt(s1, j) = CharAt(s2, j)
                                              /\ CharAt(s1, j) # NUL
  THEN 1
  ELSE 0

\* The URI paths resources are activated under, and the paths of requests.
ResourcePaths == {<<"a">>, <<"a", "/", "b">>}
RequestPaths == ResourcePaths \cup {<<"a", "b">>, <<"b", "/", "a">>}

\* rest_resource_flags_t values are sets of flag bits: x & FLAG is FLAG \in x.
\* REST.get_method_type yields one method bit, or a bit that is none of the
\* four (the empty set here).
Methods == {{"METHOD_GET"}, {"METHOD_POST"}, {"METHOD_PUT"},
            {"METHOD_DELETE"}, {}}
ResourceFlags == SUBSET {"HAS_SUB_RESOURCES", "IS_OBSERVABLE"}

\* The handler slots of a resource_t that are not NULL: a resource that is
\* read, or one that is written.
HandlerSets == {{"get_handler"},
                {"post_handler", "put_handler", "delete_handler"}}

\* A resource_t as the application defines it, before a path is bound.
ResourceImpls == [flags : ResourceFlags, handlers : HandlerSets,
                  periodic : {NO_PERIODIC}]

\* Resources for the periodic part.  A periodic_resource_t has a handler
\* (NULL or not) and a period; a resource is periodic with period 1 or 2, or
\* it lacks one of: the IS_PERIODIC flag, the descriptor, the handler, a
\* non-zero period.
PeriodicDescriptor(handler, period) ==
  [periodic_handler |-> handler, period |-> period]
PeriodicImpl(flags, periodic) ==
  [flags |-> flags, handlers |-> {"get_handler"}, periodic |-> periodic]
PeriodicImpls ==
  { PeriodicImpl({"IS_PERIODIC"}, PeriodicDescriptor(1, 1)),
    PeriodicImpl({"IS_PERIODIC"}, PeriodicDescriptor(1, 2)),
    PeriodicImpl({}, PeriodicDescriptor(1, 1)),
    PeriodicImpl({"IS_PERIODIC"}, NO_PERIODIC),
    PeriodicImpl({"IS_PERIODIC"}, PeriodicDescriptor(NULL, 1)),
    PeriodicImpl({"IS_PERIODIC"}, PeriodicDescriptor(1, 0)) }

Requests == [url : RequestPaths, method : Methods]

\* Variant of RestInitEngine: the engine is initialized again on every call.
RestInitEngine_Again ==
  /\ is_initialized' = 1
  /\ restful_services' = <<>>
  /\ restful_periodic_services' = <<>>
  /\ UNCHANGED <<coap_timers, expired, handled>>
  /\ UNCHANGED <<rest_request, status_log, invoked, subscribed,
                 rest_resource, rest_result, rest_calls>>
  /\ UNCHANGED non_rest_vars

\* rest_init_engine
RestInitEngine ==
  /\ IF is_initialized # 0
     THEN UNCHANGED <<is_initialized, restful_services,
                      restful_periodic_services>>
     ELSE /\ is_initialized' = 1
          /\ restful_services' = <<>>
          /\ restful_periodic_services' = <<>>
  /\ UNCHANGED <<coap_timers, expired, handled>>
  /\ UNCHANGED <<rest_request, status_log, invoked, subscribed,
                 rest_resource, rest_result, rest_calls>>
  /\ UNCHANGED non_rest_vars

\* list_add(restful_services, resource) for a resource not yet in the list.
list_add(list, item) == Append(list, item)

\* The timer collaborator.  A coap_timer_t that has not been set up:
UnsetTimer ==
  [callback |-> "none", user_data |-> NO_RESOURCE, interval |-> 0,
   pending |-> 0]
coap_timer_set_callback(t, callback) == [t EXCEPT !.callback = callback]
coap_timer_set_user_data(t, data) == [t EXCEPT !.user_data = data]
coap_timer_get_user_data(t) == t.user_data
\* Every arm is answered by one expiry callback.
coap_timer_set(t, time) == [t EXCEPT !.interval = time, !.pending = @ + 1]

\* Variant of ActivatesPeriodic: the periodic_handler is not tested.
ActivatesPeriodic_IgnoreHandler(resource) ==
  /\ "IS_PERIODIC" \in resource.flags
  /\ resource.periodic # NO_PERIODIC
  /\ resource.periodic.period # 0

\* The condition under which rest_activate_resource sets up the timer.
ActivatesPeriodic(resource) ==
  /\ "IS_PERIODIC" \in resource.flags
  /\ resource.periodic # NO_PERIODIC
  /\ resource.periodic.periodic_handler # NULL
  /\ resource.periodic.period # 0

\* resource->url = path: the resource_t with its path bound.
BoundResource(impl, path) ==
  [url |-> path, flags |-> impl.flags, handlers |-> impl.handlers,
   periodic |-> impl.periodic]

\* rest_activate_resource(resource, path): each resource object is activated
\* at most once.
RestActivateResource(impl, path) ==
  LET resource == BoundResource(impl, path)
  IN
  /\ Len(restful_services) < MaxResources
  /\ restful_services' = list_add(restful_services, resource)
  /\ IF ActivatesPeriodic(resource)
     THEN /\ restful_periodic_services' =
               list_add(restful_periodic_services, resource.periodic)
          /\ coap_timers' =
               Append(coap_timers,
                      coap_timer_set(
                        coap_timer_set_user_data(
                          coap_timer_set_callback(UnsetTimer,
                                                  "process_callback"),
                          resource),
                        resource.periodic.period))
          /\ expired' = Append(expired, 0)
          /\ handled' = Append(handled, 0)
     ELSE UNCHANGED timer_vars
  /\ UNCHANGED <<is_initialized, rest_request, status_log, invoked,
                 subscribed, rest_resource, rest_result, rest_calls>>
  /\ UNCHANGED non_rest_vars

\* Variant of UrlMatches: the HAS_SUB_RESOURCES test is missing.
UrlMatches_IgnoreFlag(resource, url) ==
  LET url_len == Len(url)
      res_url_len == strlen(resource.url)
  IN /\ \/ url_len = res_url_len
        \/ /\ url_len > res_url_len
           /\ url[res_url_len + 1] = "/"
     /\ strncmp(resource.url, url, res_url_len) = 0

\* The condition of the if in the dispatch loop: does resource match url?
UrlMatches(resource, url) ==
  LET url_len == Len(url)
      res_url_len == strlen(resource.url)
  IN /\ \/ url_len = res_url_len
        \/ /\ url_len > res_url_len
           /\ "HAS_SUB_RESOURCES" \in resource.flags
           /\ url[res_url_len + 1] = "/"
     /\ strncmp(resource.url, url, res_url_len) = 0

\* The for loop from list_head(restful_services): the position of the first
\* resource that matches, 0 when the loop runs off the end of the list.
RECURSIVE ScanFrom(_, _, _)
ScanFrom(list, i, url) ==
  IF i > Len(list) THEN 0
  ELSE IF UrlMatches(list[i], url) THEN i
  ELSE ScanFrom(list, i + 1, url)

\* Variant of FirstMatch: only the head of the list is looked at.
FirstMatch_HeadOnly(list, url) ==
  IF Len(list) > 0 /\ UrlMatches(list[1], url) THEN 1 ELSE 0

\* Variant of FirstMatch: the loop does not break, the last match stays.
FirstMatch_Last(list, url) ==
  IF \E i \in 1..Len(list) : UrlMatches(list[i], url)
  THEN CHOOSE i \in 1..Len(list) :
         /\ UrlMatches(list[i], url)
         /\ \A j \in (i + 1)..Len(list) : ~UrlMatches(list[j], url)
  ELSE 0

FirstMatch(list, url) == ScanFrom(list, 1, url)

\* Variant of SelectHandler: the GET branch does not test the method.
SelectHandler_IgnoreMethod(resource, method) ==
  IF "get_handler" \in resource.handlers
    THEN "get_handler"
  ELSE IF "METHOD_POST" \in method /\ "post_handler" \in resource.handlers
    THEN "post_handler"
  ELSE IF "METHOD_PUT" \in method /\ "put_handler" \in resource.handlers
    THEN "put_handler"
  ELSE IF "METHOD_DELETE" \in method /\ "delete_handler" \in resource.handlers
    THEN "delete_handler"
  ELSE "none"

\* The if / else-if chain over the method: the handler slot that is called,
\* "none" when the chain falls through to allowed = 0.
SelectHandler(resource, method) ==
  IF "METHOD_GET" \in method /\ "get_handler" \in resource.handlers
    THEN "get_handler"
  ELSE IF "METHOD_POST" \in method /\ "post_handler" \in resource.handlers
    THEN "post_handler"
  ELSE IF "METHOD_PUT" \in method /\ "put_handler" \in resource.handlers
    THEN "put_handler"
  ELSE IF "METHOD_DELETE" \in method /\ "delete_handler" \in resource.handlers
    THEN "delete_handler"
  ELSE "none"

\* Variant of ReturnValue: return found;
ReturnValue_FoundOnly(found, allowed) == found

\* return found & allowed;
ReturnValue(found, allowed) == IF found = 1 /\ allowed = 1 THEN 1 ELSE 0

\* Variant of SubscriptionHook: `allowed' is not tested.
SubscriptionHook_IgnoreAllowed(found, allowed, flags) ==
  found = 1 /\ "IS_OBSERVABLE" \in flags

\* The tail of the dispatcher, if(!found) ... else if(allowed) ...: is
\* REST.subscription_handler called?  flags are those of the matched resource.
SubscriptionHook(found, allowed, flags) ==
  found = 1 /\ allowed = 1 /\ "IS_OBSERVABLE" \in flags

\* rest_invoke_restful_service: installed as the service callback by
\* rest_init_engine, so it runs on an initialized engine only, and one call
\* at a time (handlers do not re-enter the dispatcher).
RestInvokeRestfulService(req) ==
  LET m == FirstMatch(restful_services, req.url)
      found == IF m # 0 THEN 1 ELSE 0
      h == IF m # 0 THEN SelectHandler(restful_services[m], req.method)
                    ELSE "none"
      allowed == IF m # 0 /\ h = "none" THEN 0 ELSE 1
      flags == IF m # 0 THEN restful_services[m].flags ELSE {}
      hook == SubscriptionHook(found, allowed, flags)
      call(c) == [call |-> c, resource |-> m]
  IN /\ is_initialized # 0
     /\ rest_request = NO_REQUEST
     /\ rest_request' = req
     /\ invoked' = IF m # 0 /\ h # "none"
                   THEN <<[resource |-> m, handler |-> h]>>
                   ELSE <<>>
     /\ status_log' = IF found = 0 THEN <<"NOT_FOUND">>
                      ELSE IF allowed = 0 THEN <<"METHOD_NOT_ALLOWED">>
                      ELSE <<>>
     /\ subscribed' = IF hook THEN <<m>> ELSE <<>>
     /\ rest_calls' =
          (IF found = 0 THEN <<call("set_response_status NOT_FOUND")>>
           ELSE IF allowed = 0
             THEN <<call("set_response_status METHOD_NOT_ALLOWED")>>
           ELSE <<call(h)>>)
          \o (IF hook THEN <<call("subscription_handler")>> ELSE <<>>)
     /\ rest_resource' = m
     /\ rest_result' = ReturnValue(found, allowed)
     /\ UNCHANGED <<is_initialized, restful_services>>
     /\ UNCHANGED timer_vars
     /\ UNCHANGED non_rest_vars

\* The service callback has returned: the REST implementation that called it
\* has taken the return value and the response, the locals of the call are
\* gone.
ServiceReturn ==
  /\ rest_request # NO_REQUEST
  /\ rest_request' = NO_REQUEST
  /\ status_log' = <<>>
  /\ invoked' = <<>>
  /\ subscribed' = <<>>
  /\ rest_resource' = NULL
  /\ rest_result' = 0
  /\ rest_calls' = <<>>
  /\ UNCHANGED <<is_initialized, restful_services>>
  /\ UNCHANGED timer_vars
  /\ UNCHANGED non_rest_vars

\* The condition of the outer if of process_callback.
StillPeriodic(resource) ==
  /\ resource # NO_RESOURCE
  /\ "IS_PERIODIC" \in resource.flags
  /\ resource.periodic # NO_PERIODIC
  /\ resource.periodic.period # 0

\* Variant of CallsPeriodicHandler: is_initialized is not tested.
CallsPeriodicHandler_Uninitialized(resource, initialized) ==
  resource.periodic.periodic_handler # NULL

\* if(!is_initialized) { } else if(resource->periodic->periodic_handler):
\* is the periodic handler called?
CallsPeriodicHandler(resource, initialized) ==
  /\ initialized # 0
  /\ resource.periodic.periodic_handler # NULL

\* Variant of Rearm: the timer is left as the expiry left it (one-shot).
Rearm_OneShot(t, resource) == t

\* coap_timer_set(t, resource->periodic->period), the last statement of the
\* outer if.
Rearm(t, resource) == coap_timer_set(t, resource.periodic.period)

\* Variant of process_callback: the timer is armed on entry as well.
process_callback_ArmOnEntry(t, initialized) ==
  LET resource == coap_timer_get_user_data(t)
  IN IF StillPeriodic(resource)
     THEN [timer |-> Rearm(Rearm(t, resource), resource),
           calls |-> IF CallsPeriodicHandler(resource, initialized)
                     THEN 1 ELSE 0]
     ELSE [timer |-> t, calls |-> 0]

\* process_callback(t): the timer as the callback leaves it and the number
\* of calls of the periodic handler it made.
process_callback(t, initialized) ==
  LET resource == coap_timer_get_user_data(t)
  IN IF StillPeriodic(resource)
     THEN [timer |-> Rearm(t, resource),
           calls |-> IF CallsPeriodicHandler(resource, initialized)
                     THEN 1 ELSE 0]
     ELSE [timer |-> t, calls |-> 0]

\* The timer service delivers one expiry of timer i: the arm is used up and
\* the callback of the timer runs to its end, the periodic handler included.
TimerExpiry(i) ==
  /\ i \in 1..Len(coap_timers)
  /\ coap_timers[i].pending > 0
  /\ coap_timers[i].callback = "process_callback"
  /\ expired[i] < MaxExpiries
  /\ LET t == [coap_timers[i] EXCEPT !.pending = @ - 1]
         r == process_callback(t, is_initialized)
     IN /\ coap_timers' = [coap_timers EXCEPT ![i] = r.timer]
        /\ handled' = [handled EXCEPT ![i] = @ + r.calls]
  /\ expired' = [expired EXCEPT ![i] = @ + 1]
  /\ UNCHANGED <<is_initialized, restful_services, rest_request, status_log,
                 invoked, subscribed, rest_resource, rest_result, rest_calls,
                 restful_periodic_services>>
  /\ UNCHANGED non_rest_vars

(***************************************************************************)
(* Transport for uIPv6: endpoints, the plaintext UDP socket and the DTLS    *)
(* channel (WITH_DTLS build).                                              *)
(***************************************************************************)
\* A coap_endpoint_t: ipaddr, port, secure.  ep == NULL is NO_ENDPOINT.
Endpoint(ipaddr, port, secure) ==
  [ipaddr |-> ipaddr, port |-> port, secure |-> secure]
Endpoints == [ipaddr : IpAddrs, port : Ports, secure : {0, 1}]

\* The key a DTLS peer is found by: address and port of its session.
PeerKey(ep) == [ipaddr |-> ep.ipaddr, port |-> ep.port]
PeerKeys == [ipaddr : IpAddrs, port : Ports]

\* dtls_get_peer(ctx, session): the state of the peer of this session,
\* "none" when there is no peer.
dtls_get_peer(peers, session) == peers[PeerKey(session)]

\* dtls_peer_is_connected(peer): the handshake of the peer is done.
dtls_peer_is_connected(peer) == IF peer = "connected" THEN 1 ELSE 0

\* rpl_get_any_dag() == NULL, in a build with UIP_CONF_IPV6_RPL.
NoRoutingPath(conf, dag) == conf # 0 /\ dag = NULL

\* Variant of coap_endpoint_is_connected: the RPL check is missing.
coap_endpoint_is_connected_NoRpl(ep, conf, dag, ctx, peers) ==
  IF ep # NO_ENDPOINT /\ ep.secure # 0 /\ ctx # NULL
       /\ dtls_get_peer(peers, ep) # "none"
    THEN dtls_peer_is_connected(dtls_get_peer(peers, ep))
  ELSE 1

\* coap_endpoint_is_connected(ep)
coap_endpoint_is_connected(ep, conf, dag, ctx, peers) ==
  IF NoRoutingPath(conf, dag) THEN 0
  ELSE IF ep # NO_ENDPOINT /\ ep.secure # 0 /\ ctx # NULL
          /\ dtls_get_peer(peers, ep) # "none"
    THEN dtls_peer_is_connected(dtls_get_peer(peers, ep))
  ELSE 1

\* get_src_endpoint(secure): the source of the datagram in uip_buf.
get_src_endpoint(dgram, secure) ==
  Endpoint(dgram.srcipaddr, dgram.srcport, secure)

\* Variant of SendSink: a secure endpoint without a DTLS context falls
\* through to the UDP socket.
SendSink_FallThrough(ep, ctx) ==
  IF ep = NO_ENDPOINT THEN "none"
  ELSE IF ep.secure # 0 /\ ctx # NULL THEN "dtls_write"
  ELSE "uip_udp_packet_sendto"

\* Variant of SendSink: the build without the secure channel, where every
\* message goes to the UDP socket.
SendSink_AlwaysPlain(ep, ctx) ==
  IF ep = NO_ENDPOINT THEN "none" ELSE "uip_udp_packet_sendto"

\* The branches of coap_send_message: the call it ends in.
SendSink(ep, ctx) ==
  IF ep = NO_ENDPOINT THEN "none"
  ELSE IF ep.secure # 0
    THEN (IF ctx # NULL THEN "dtls_write" ELSE "none")
  ELSE "uip_udp_packet_sendto"

\* Every operation starts with the records of the one before cleared.
TransportCall(op, arg) == [op |-> op, arg |-> arg]

\* PROCESS_THREAD(coap_engine) up to its first PROCESS_YIELD: the UDP
\* connection, and the DTLS connection and context, each of which may fail
\* to be allocated.
CoapEngineStart(conn_ok, ctx_ok) ==
  /\ udp_conn = NULL
  /\ udp_conn' = 1
  /\ dtls_conn' = IF conn_ok THEN 1 ELSE NULL
  /\ dtls_context' = IF conn_ok /\ ctx_ok THEN 1 ELSE NULL
  /\ transport_op' = TransportCall("coap_engine", NO_ENDPOINT)
  /\ udp_out' = <<>>
  /\ dtls_out' = <<>>
  /\ dtls_in' = <<>>
  /\ coap_received' = <<>>
  /\ connected_result' = 0
  /\ UNCHANGED <<dtls_peers, rpl_conf, rpl_dag>>
  /\ UNCHANGED non_transport_vars

\* coap_send_message(ep, data, length), once the engine runs.
CoapSendMessage(ep, data) ==
  LET sink == SendSink(ep, dtls_context)
  IN /\ udp_conn # NULL
     /\ transport_op' =
          TransportCall("coap_send_message", [ep |-> ep, data |-> data])
     /\ dtls_out' = IF sink = "dtls_write"
                    THEN <<[session |-> ep, data |-> data]>> ELSE <<>>
     /\ udp_out' = IF sink = "uip_udp_packet_sendto"
                   THEN <<[conn |-> "udp_conn", ipaddr |-> ep.ipaddr,
                           port |-> ep.port, data |-> data]>>
                   ELSE <<>>
     /\ dtls_in' = <<>>
     /\ coap_received' = <<>>
     /\ connected_result' = 0
     /\ UNCHANGED <<udp_conn, dtls_conn, dtls_context, dtls_peers, rpl_conf,
                    rpl_dag>>
     /\ UNCHANGED non_transport_vars

\* dtls_get_app_data(ctx): the connection the context was created with,
\* dtls_new_context(dtls_conn).
dtls_get_app_data(ctx) == "dtls_conn"

\* What the DTLS library hands to its write callback: handshake messages
\* and encrypted application data.
DtlsRecords == {"handshake", "application_data"}

\* output_to_peer(ctx, session, data, len), the write callback of the DTLS
\* library: the record goes out on the connection of the context.
OutputToPeer(session, data) ==
  /\ dtls_context # NULL
  /\ transport_op' =
       TransportCall("output_to_peer", [session |-> session, data |-> data])
  /\ udp_out' = <<[conn |-> dtls_get_app_data(dtls_context),
                   ipaddr |-> session.ipaddr, port |-> session.port,
                   data |-> data]>>
  /\ dtls_out' = <<>>
  /\ dtls_in' = <<>>
  /\ coap_received' = <<>>
  /\ connected_result' = 0
  /\ UNCHANGED <<udp_conn, dtls_conn, dtls_context, dtls_peers, rpl_conf,
                 rpl_dag>>
  /\ UNCHANGED non_transport_vars

\* coap_endpoint_is_connected(ep), its return value recorded.
CoapEndpointIsConnected(ep) ==
  /\ transport_op' = TransportCall("coap_endpoint_is_connected", ep)
  /\ connected_result' =
       coap_endpoint_is_connected(ep, rpl_conf, rpl_dag, dtls_context,
                                  dtls_peers)
  /\ udp_out' = <<>>
  /\ dtls_out' = <<>>
  /\ dtls_in' = <<>>
  /\ coap_received' = <<>>
  /\ UNCHANGED <<udp_conn, dtls_conn, dtls_context, dtls_peers, rpl_conf,
                 rpl_dag>>
  /\ UNCHANGED non_transport_vars

\* coap_endpoint_connect(ep): dtls_connect starts the handshake with a peer
\* that does not exist yet.
CoapEndpointConnect(ep) ==
  /\ transport_op' = TransportCall("coap_endpoint_connect", ep)
  /\ dtls_peers' =
       IF ep.secure # 0 /\ dtls_context # NULL
          /\ dtls_get_peer(dtls_peers, ep) = "none"
       THEN [dtls_peers EXCEPT ![PeerKey(ep)] = "handshake"]
       ELSE dtls_peers
  /\ udp_out' = <<>>
  /\ dtls_out' = <<>>
  /\ dtls_in' = <<>>
  /\ coap_received' = <<>>
  /\ connected_result' = 0
  /\ UNCHANGED <<udp_conn, dtls_conn, dtls_context, rpl_conf, rpl_dag>>
  /\ UNCHANGED non_transport_vars

\* The DTLS library behind dtls_handle_message(ctx, session, data): what it
\* does with a record of a datagram from `session'.  A record that does not
\* decrypt or verify is dropped; a handshake record moves the peer on; an
\* application data record of a connected peer is decrypted and given to the
\* read callback with the session of the peer, whose secure field is what
\* the library kept of it (kept_secure).
dtls_handle_message(peers, session, data, record, kept_secure) ==
  LET peer == dtls_get_peer(peers, session)
  IN CASE record = "handshake" ->
            [peers |-> [peers EXCEPT ![PeerKey(session)] =
                          IF peer = "none" THEN "handshake" ELSE "connected"],
             read |-> <<>>]
       [] record = "application_data" /\ peer = "connected" ->
            [peers |-> peers,
             read |-> <<[session |-> [session EXCEPT !.secure = kept_secure],
                         data |-> data]>>]
       [] OTHER -> [peers |-> peers, read |-> <<>>]

\* Variant of input_from_peer: the session is passed on as it came.
input_from_peer_Untagged(peers, session, data) ==
  <<[ep |-> session, data |-> data]>>

\* input_from_peer(ctx, session, data), the read callback: the calls of
\* coap_receive it makes.
input_from_peer(peers, session, data) ==
  LET peer == dtls_get_peer(peers, session)
  IN <<[ep |-> IF peer # "none" THEN [session EXCEPT !.secure = 1]
                                ELSE session,
        data |-> data]>>

\* Datagrams: on the UDP connection a CoAP message, on the DTLS connection a
\* DTLS record of one of three kinds.
Datagrams ==
  [conn : {"udp_conn"}, srcipaddr : IpAddrs, srcport : Ports,
   data : Payloads, record : {"plain"}]
  \cup
  [conn : {"dtls_conn"}, srcipaddr : IpAddrs, srcport : Ports,
   data : Payloads, record : {"handshake", "application_data", "invalid"}]

\* One round of the loop of coap_engine: tcpip_event with uip_newdata() for
\* a datagram on one of the two connections.
TcpipEvent(dgram, kept_secure) ==
  LET secure == dgram.conn = "dtls_conn"
      src == get_src_endpoint(dgram, IF secure THEN 1 ELSE 0)
      to_dtls == secure /\ dtls_context # NULL
      r == IF to_dtls
           THEN dtls_handle_message(dtls_peers, src, dgram.data, dgram.record,
                                    kept_secure)
           ELSE [peers |-> dtls_peers, read |-> <<>>]
  IN /\ udp_conn # NULL
     /\ secure => dtls_conn # NULL
     /\ transport_op' = TransportCall("tcpip_event", dgram)
     /\ dtls_in' = IF to_dtls
                   THEN <<[session |-> src, data |-> dgram.data]>> ELSE <<>>
     /\ dtls_peers' = r.peers
     /\ coap_received' =
          IF secure
          THEN (IF r.read = <<>> THEN <<>>
                ELSE input_from_peer(r.peers, r.read[1].session,
                                     r.read[1].data))
          ELSE <<[ep |-> src, data |-> dgram.data]>>
     /\ udp_out' = <<>>
     /\ dtls_out' = <<>>
     /\ connected_result' = 0
     /\ UNCHANGED <<udp_conn, dtls_conn, dtls_context, rpl_conf, rpl_dag>>
     /\ UNCHANGED non_transport_vars

\* The routing layer gains or loses its DAG (UIP_CONF_IPV6_RPL builds).
RplDagChange(dag) ==
  /\ rpl_conf # 0
  /\ dag # rpl_dag
  /\ rpl_dag' = dag
  /\ transport_op' = TransportCall("rpl", NO_ENDPOINT)
  /\ udp_out' = <<>>
  /\ dtls_out' = <<>>
  /\ dtls_in' = <<>>
  /\ coap_received' = <<>>
  /\ connected_result' = 0
  /\ UNCHANGED <<udp_conn, dtls_conn, dtls_context, dtls_peers, rpl_conf>>
  /\ UNCHANGED non_transport_vars

InitTransport ==
  /\ udp_conn = NULL
  /\ dtls_conn = NULL
  /\ dtls_context = NULL
  /\ dtls_peers = [k \in PeerKeys |-> "none"]
  /\ rpl_conf \in {0, 1}
  /\ rpl_dag = NULL
  /\ transport_op = TransportCall("none", NO_ENDPOINT)
  /\ udp_out = <<>>
  /\ dtls_out = <<>>
  /\ dtls_in = <<>>
  /\ coap_received = <<>>
  /\ connected_result = 0

(***************************************************************************)
(* Endpoint texts: coap_endpoint_parse.                                    *)
(***************************************************************************)
\* "coap://[2001:db8::1]:5683"
TextCoapPort ==
  <<"c", "o", "a", "p", ":", "/", "/", "[", "2", "0", "0", "1", ":", "d",
    "b", "8", ":", ":", "1", "]", ":", "5", "6", "8", "3">>
\* "coap://[fe80::2]:61616"
TextCoapHighPort ==
  <<"c", "o", "a", "p", ":", "/", "/", "[", "f", "e", "8", "0", ":", ":",
    "2", "]", ":", "6", "1", "6", "1", "6">>
\* "coaps://[2001:db8::1]"
TextCoaps ==
  <<"c", "o", "a", "p", "s", ":", "/", "/", "[", "2", "0", "0", "1", ":",
    "d", "b", "8", ":", ":", "1", "]">>
\* "coaps://[fe80::2]:5684"
TextCoapsPort ==
  <<"c", "o", "a", "p", "s", ":", "/", "/", "[", "f", "e", "8", "0", ":",
    ":", "2", "]", ":", "5", "6", "8", "4">>
\* "coap://[fe80::2]"
TextCoap ==
  <<"c", "o", "a", "p", ":", "/", "/", "[", "f", "e", "8", "0", ":", ":",
    "2", "]">>
\* "[fe80::2]:5683"
TextNoScheme ==
  <<"[", "f", "e", "8", "0", ":", ":", "2", "]", ":", "5", "6", "8", "3">>
\* "coap://[2001:db8::1"
TextNoBracket ==
  <<"c", "o", "a", "p", ":", "/", "/", "[", "2", "0", "0", "1", ":", "d",
    "b", "8", ":", ":", "1">>
\* "coap://[fe80::g]:5683"
TextBadAddress ==
  <<"c", "o", "a", "p", ":", "/", "/", "[", "f", "e", "8", "0", ":", ":",
    "g", "]", ":", "5", "6", "8", "3">>
\* "coap://[fe80::2]:"
TextNoDigits ==
  <<"c", "o", "a", "p", ":", "/", "/", "[", "f", "e", "8", "0", ":", ":",
    "2", "]", ":">>

\* "coaps://[fe80::2]"
TextCoapsOther ==
  <<"c", "o", "a", "p", "s", ":", "/", "/", "[", "f", "e", "8", "0", ":",
    ":", "2", "]">>
\* "coap://[2001:db8::1]"
TextCoapOther ==
  <<"c", "o", "a", "p", ":", "/", "/", "[", "2", "0", "0", "1", ":", "d",
    "b", "8", ":", ":", "1", "]">>
\* "fe80::2"
TextBare ==
  <<"f", "e", "8", "0", ":", ":", "2">>
\* "2001:db8::1"
TextBareOther ==
  <<"2", "0", "0", "1", ":", "d", "b", "8", ":", ":", "1">>
\* "coap://fe80::2"
TextSchemeNoBrackets ==
  <<"c", "o", "a", "p", ":", "/", "/", "f", "e", "8", "0", ":", ":", "2">>
\* "fe80::2:5683"
TextPortNoBrackets ==
  <<"f", "e", "8", "0", ":", ":", "2", ":", "5", "6", "8", "3">>

ParseTexts ==
  {TextCoapPort, TextCoapHighPort, TextCoaps, TextCoapsPort, TextCoap,
   TextNoScheme, TextNoBracket, TextBadAddress, TextNoDigits,
   TextCoapsOther, TextCoapOther, TextBare, TextBareOther,
   TextSchemeNoBrackets, TextPortNoBrackets}

\* "coaps:", the prefix coap_endpoint_parse compares with.
CoapsPrefix == <<"c", "o", "a", "p", "s", ":">>

\* s + n: the string that starts n characters into s.
StringFrom(s, n) == SubSeq(s, n + 1, Len(s))

\* index_of(data, offset, len, c): the offset of the first c at or after
\* offset, -1 if there is none, and offset itself if it is negative.
RECURSIVE index_of(_, _, _, _)
index_of(data, offset, len, c) ==
  IF offset < 0 THEN offset
  ELSE IF offset >= len THEN 0 - 1
  ELSE IF CharAt(data, offset + 1) = c THEN offset
  ELSE index_of(data, offset + 1, len, c)

\* Decimal and hexadecimal digits and their values.
HexDigits ==
  <<"0", "1", "2", "3", "4", "5", "6", "7", "8", "9", "a", "b", "c", "d",
    "e", "f">>
IsDigit(c) == \E d \in 1..10 : HexDigits[d] = c
IsHexDigit(c) == \E d \in 1..16 : HexDigits[d] = c
DigitValue(c) == (CHOOSE d \in 1..16 : HexDigits[d] = c) - 1

\* The for loop of get_port from index i.  *value is a uint32_t of which
\* the caller uses the low 16 bits (UIP_HTONS); these do not depend on the
\* higher ones, so the value is kept modulo 2^16.
RECURSIVE get_port_loop(_, _, _, _)
get_port_loop(inbuf, len, i, value) ==
  IF i < len /\ IsDigit(CharAt(inbuf, i + 1))
  THEN get_port_loop(inbuf, len, i + 1,
                     (value * 10 + DigitValue(CharAt(inbuf, i + 1)))
                       % 65536)
  ELSE [count |-> i, value |-> value]

\* get_port(inbuf, len, value): the number of digits read (the return
\* value) and *value.
get_port(inbuf, len) == get_port_loop(inbuf, len, 0, 0)

\* uiplib_ipaddrconv(addrstr, ipaddr) for IPv6: hexadecimal groups separated
\* by ':', one "::" for a run of zero groups, an optional '[' in front, ended
\* by ']', '/' or the end of the string.  ipaddr is written group by group,
\* so a failed conversion leaves the groups converted so far in it.
IsAddressEnd(c) == c = NUL \/ c = "]" \/ c = "/"

\* After the loop: c is the character the loop stopped at, n the number of
\* groups written, zero the group "::" stands before (-1: no "::").
ipaddrconv_finish(c, n, zero, ipaddr) ==
  IF ~IsAddressEnd(c) THEN [ok |-> 0, ipaddr |-> ipaddr]
  ELSE IF n = 8 THEN [ok |-> 1, ipaddr |-> ipaddr]
  ELSE IF zero < 0 THEN [ok |-> 0, ipaddr |-> ipaddr]
  ELSE [ok |-> 1,
        ipaddr |-> [g \in 1..8 |->
                      IF g <= zero THEN ipaddr[g]
                      ELSE IF g <= zero + (8 - n) THEN 0
                      ELSE ipaddr[g - (8 - n)]]]

RECURSIVE ipaddrconv_loop(_, _, _, _, _, _)
ipaddrconv_loop(addrstr, pos, n, value, zero, ipaddr) ==
  LET c == CharAt(addrstr, pos + 1)
  IN IF c = ":" \/ IsAddressEnd(c)
     THEN LET written == [ipaddr EXCEPT ![n + 1] = value]
              compressed == c = ":" /\ CharAt(addrstr, pos + 2) = ":"
              zero2 == IF compressed /\ zero < 0 THEN n + 1 ELSE zero
              pos2 == IF compressed THEN pos + 2 ELSE pos + 1
          IN IF IsAddressEnd(c) \/ n + 1 >= 8
             THEN ipaddrconv_finish(c, n + 1, zero2, written)
             ELSE ipaddrconv_loop(addrstr, pos2, n + 1, 0, zero2, written)
     ELSE IF IsHexDigit(c)
     THEN ipaddrconv_loop(addrstr, pos + 1, n,
                          (value * 16 + DigitValue(c)) % 65536, zero, ipaddr)
     ELSE [ok |-> 0, ipaddr |-> ipaddr]

uiplib_ipaddrconv(addrstr, ipaddr) ==
  ipaddrconv_loop(addrstr, IF CharAt(addrstr, 1) = "[" THEN 1 ELSE 0,
                  0, 0, 0 - 1, ipaddr)

\* What uiplib_ipaddrconv((const char *)&text, ...) can read: the bytes of
\* the pointer variable `text' itself, not the text.  They are no address
\* ("?" stands for a byte that is no hexadecimal digit), unless the pointer
\* happens to hold 0x3a3a with a zero byte behind it, which reads "::".
StrayStrings == {<<"?">>, <<":", ":">>}

\* Variant of ParsedPort: coaps without a port gets the plaintext port.
ParsedPort_SamePort(text, size, end, secure, ep) ==
  LET p == get_port(StringFrom(text, end + 2), size - end - 2)
  IN IF CharAt(text, end + 2) = ":" /\ p.count # 0
     THEN [ep EXCEPT !.port = UIP_HTONS(p.value)]
     ELSE IF secure
     THEN [ep EXCEPT !.port = SERVER_LISTEN_PORT, !.secure = 1]
     ELSE [ep EXCEPT !.port = SERVER_LISTEN_PORT, !.secure = 0]

\* The inner if / else-if / else of coap_endpoint_parse, once the address
\* is converted: port and secure flag of ep.
ParsedPort(text, size, end, secure, ep) ==
  LET p == get_port(StringFrom(text, end + 2), size - end - 2)
  IN IF CharAt(text, end + 2) = ":" /\ p.count # 0
     THEN [ep EXCEPT !.port = UIP_HTONS(p.value)]
     ELSE IF secure
     THEN [ep EXCEPT !.port = SERVER_LISTEN_SECURE_PORT, !.secure = 1]
     ELSE [ep EXCEPT !.port = SERVER_LISTEN_PORT, !.secure = 0]

\* coap_endpoint_parse(text, size, ep): the return value and *ep.  stray is
\* what the conversion of the else branch reads.
coap_endpoint_parse(text, size, ep, stray) ==
  LET start == index_of(text, 0, size, "[")
      end == index_of(text, start, size, "]")
      secure == strncmp(text, CoapsPrefix, 6) = 0
      bracketed == start > 0 /\ end > start
      conv == IF bracketed
              THEN uiplib_ipaddrconv(StringFrom(text, start), ep.ipaddr)
              ELSE [ok |-> 0, ipaddr |-> ep.ipaddr]
      conv2 == uiplib_ipaddrconv(stray, conv.ipaddr)
  IN IF bracketed /\ conv.ok # 0
     THEN [result |-> 1,
           ep |-> ParsedPort(text, size, end, secure,
                             [ep EXCEPT !.ipaddr = conv.ipaddr])]
     ELSE IF conv2.ok # 0
     THEN [result |-> 1,
           ep |-> [ipaddr |-> conv2.ipaddr, port |-> SERVER_LISTEN_PORT,
                   secure |-> 0]]
     ELSE [result |-> 0, ep |-> [ep EXCEPT !.ipaddr = conv2.ipaddr]]

\* A call of coap_endpoint_parse on a terminated text, with an endpoint
\* object of any content (prior) to write to.
CoapEndpointParse(text, prior, stray) ==
  LET r == coap_endpoint_parse(text, strlen(text), prior, stray)
  IN /\ parse_text' = text
     /\ parse_prior' = prior
     /\ parse_ep' = r.ep
     /\ parse_result' = r.result
     /\ printed_ep' = NO_ENDPOINT
     /\ UNCHANGED endpoint_op
     /\ UNCHANGED non_parse_vars

\* uip_ntohs(n): network to host byte order, the same swap as UIP_HTONS.
uip_ntohs(n) == UIP_HTONS(n)

\* printf("%u", n) and printf("%x", n): the digits of n without leading
\* zeros.
RECURSIVE FormatNumber(_, _)
FormatNumber(n, base) ==
  IF n < base THEN <<HexDigits[n + 1]>>
  ELSE FormatNumber(n \div base, base) \o <<HexDigits[(n % base) + 1]>>

\* The loop of uip_debug_ipaddr_print over the groups from g on.  f counts
\* the zero groups of the first run of zeros, printed as "::", and is -1
\* after that run.
RECURSIVE ipaddr_print_loop(_, _, _)
ipaddr_print_loop(addr, g, f) ==
  IF g > 8 THEN <<>>
  ELSE IF addr[g] = 0 /\ f >= 0
  THEN (IF f = 0 THEN <<":", ":">> ELSE <<>>)
         \o ipaddr_print_loop(addr, g + 1, f + 1)
  ELSE (IF f > 0 THEN <<>> ELSE IF g > 1 THEN <<":">> ELSE <<>>)
         \o FormatNumber(addr[g], 16)
         \o ipaddr_print_loop(addr, g + 1, IF f > 0 THEN 0 - 1 ELSE f)

uip_debug_ipaddr_print(addr) == ipaddr_print_loop(addr, 1, 0)

\* coap_endpoint_print(ep): the characters it prints.
coap_endpoint_print(ep) ==
  (IF ep.secure # 0 THEN <<"c", "o", "a", "p", "s", ":">>
                    ELSE <<"c", "o", "a", "p", ":">>)
    \o <<"/", "/", "[">>
    \o uip_debug_ipaddr_print(ep.ipaddr)
    \o <<"]", ":">> \o FormatNumber(uip_ntohs(ep.port), 10)

\* The endpoints that are printed: the addresses of IpAddrs and the
\* unspecified address, the two CoAP ports, port 0 and a high port.
PrintedEndpoints ==
  [ipaddr : IpAddrs \cup {<<0, 0, 0, 0, 0, 0, 0, 0>>},
   port : Ports \cup {0, UIP_HTONS(61616)},
   secure : {0, 1}]

\* coap_endpoint_print(e) into a buffer and coap_endpoint_parse of that
\* text, with an endpoint object of any content (prior) to write to.
CoapEndpointPrintParse(e, prior, stray) ==
  LET text == coap_endpoint_print(e)
      r == coap_endpoint_parse(text, strlen(text), prior, stray)
  IN /\ parse_text' = text
     /\ parse_prior' = prior
     /\ parse_ep' = r.ep
     /\ parse_result' = r.result
     /\ printed_ep' = e
     /\ UNCHANGED endpoint_op
     /\ UNCHANGED non_parse_vars

\* uip_ipaddr_cmp(a, b): the 16 bytes agree.
uip_ipaddr_cmp(a, b) == IF a = b THEN 1 ELSE 0

\* Variant of coap_endpoint_cmp: the secure flag is not compared.
coap_endpoint_cmp_IgnoreSecure(e1, e2) ==
  IF uip_ipaddr_cmp(e1.ipaddr, e2.ipaddr) = 0 THEN 0
  ELSE IF e1.port = e2.port THEN 1 ELSE 0

\* coap_endpoint_cmp(e1, e2)
coap_endpoint_cmp(e1, e2) ==
  IF uip_ipaddr_cmp(e1.ipaddr, e2.ipaddr) = 0 THEN 0
  ELSE IF e1.port = e2.port /\ e1.secure = e2.secure THEN 1 ELSE 0

\* coap_endpoint_copy(destination, from): *destination afterwards.
coap_endpoint_copy(destination, from) ==
  [destination EXCEPT !.ipaddr = from.ipaddr, !.port = from.port,
                      !.secure = from.secure]

\* dtls_session_equals(a, b): the sessions of the DTLS library are
\* endpoints.
dtls_session_equals(a, b) == coap_endpoint_cmp(a, b)

\* coap_endpoint_cmp(e1, e2), and the same call with the arguments swapped
\* and with e1 for both.
CoapEndpointCmp(e1, e2) ==
  /\ endpoint_op' = [op |-> "coap_endpoint_cmp", prior |-> e1, e1 |-> e1,
                     e2 |-> e2,
                     result |-> coap_endpoint_cmp(e1, e2),
                     swapped |-> coap_endpoint_cmp(e2, e1),
                     self |-> coap_endpoint_cmp(e1, e1),
                     session |-> dtls_session_equals(e1, e2)]
  /\ UNCHANGED <<parse_text, parse_prior, parse_ep, parse_result,
                 printed_ep>>
  /\ UNCHANGED non_parse_vars

\* coap_endpoint_copy(&d, from) into an endpoint object d of any content,
\* followed by coap_endpoint_cmp(&d, from).
CoapEndpointCopy(d, from) ==
  LET destination == coap_endpoint_copy(d, from)
  IN /\ endpoint_op' = [op |-> "coap_endpoint_copy", prior |-> d,
                        e1 |-> destination, e2 |-> from,
                        result |-> coap_endpoint_cmp(destination, from),
                        swapped |-> coap_endpoint_cmp(from, destination),
                        self |-> coap_endpoint_cmp(destination, destination),
                        session |-> dtls_session_equals(destination, from)]
     /\ UNCHANGED <<parse_text, parse_prior, parse_ep, parse_result,
                    printed_ep>>
     /\ UNCHANGED non_parse_vars

\* The caller is done with the results of the last call.
EndpointCallReturn ==
  /\ parse_text' = <<>>
  /\ parse_prior' = NO_ENDPOINT
  /\ parse_ep' = NO_ENDPOINT
  /\ parse_result' = 0
  /\ printed_ep' = NO_ENDPOINT
  /\ endpoint_op' = [op |-> "none"]
  /\ UNCHANGED non_parse_vars

InitParse ==
  /\ parse_text = <<>>
  /\ parse_prior = NO_ENDPOINT
  /\ parse_ep = NO_ENDPOINT
  /\ parse_result = 0
  /\ printed_ep = NO_ENDPOINT
  /\ endpoint_op = [op |-> "none"]

(***************************************************************************)
(* Keystore negotiation: the PSK lookup of the DTLS library, the key store *)
(* registered with coap_set_keystore, the compiled-in default pair and the *)
(* LwM2M security object as credential source.                             *)
(***************************************************************************)
\* PSK_DEFAULT_IDENTITY "Client_identity" and PSK_DEFAULT_KEY "secretPSK"
PSK_DEFAULT_IDENTITY ==
  <<"C", "l", "i", "e", "n", "t", "_", "i", "d", "e", "n", "t", "i", "t", "y">>
PSK_DEFAULT_KEY == <<"s", "e", "c", "r", "e", "t", "P", "S", "K">>

\* dtls_keystore == NULL, and the key stores there are: the one of the LwM2M
\* security object, the default one, and one without a lookup function.
NO_KEYSTORE == [null |-> TRUE, keystore |-> TRUE]
key_store == [coap_get_psk_info |-> "lwm2m_security_get_psk_info"]
default_key_store == [coap_get_psk_info |-> "get_default_psk_info"]
empty_key_store == [coap_get_psk_info |-> "NULL"]

\* A coap_keystore_psk_entry_t.  A byte string that is NULL or of length 0
\* is <<>>: the code tests the two together wherever it tests one.
PskEntry(identity_hint, identity, key) ==
  [identity_hint |-> identity_hint, identity |-> identity, key |-> key]

\* memset(&ks, 0, sizeof(ks))
ZeroPskEntry == PskEntry(<<>>, <<>>, <<>>)

\* Variant of get_default_psk_info: the key is given for any identity.
get_default_psk_info_AnyIdentity(address_info, info) ==
  IF info.identity = <<>>
  THEN [ret |-> 1, info |-> [info EXCEPT !.identity = PSK_DEFAULT_IDENTITY]]
  ELSE [ret |-> 1, info |-> [info EXCEPT !.key = PSK_DEFAULT_KEY]]

\* get_default_psk_info(address_info, info) with info != NULL: the return
\* value and *info.
get_default_psk_info(address_info, info) ==
  IF info.identity = <<>>
  THEN [ret |-> 1, info |-> [info EXCEPT !.identity = PSK_DEFAULT_IDENTITY]]
  ELSE IF Len(info.identity) # strlen(PSK_DEFAULT_IDENTITY)
          \/ info.identity # PSK_DEFAULT_IDENTITY
  THEN [ret |-> 0, info |-> info]
  ELSE [ret |-> 1, info |-> [info EXCEPT !.key = PSK_DEFAULT_KEY]]

\* The LwM2M security object: LWM2M_SERVER_MAX_COUNT instances, an instance
\* id that marks a free one, and PSK as security mode.
MAX_COUNT == 2
LWM2M_OBJECT_INSTANCE_NONE == 65535
LWM2M_SECURITY_MODE_PSK == 0
LWM2M_SECURITY_MODE_NOSEC == 3
InstanceSlots == 1..MAX_COUNT

\* A lwm2m_security_value_t; the lengths are the lengths of the strings.
SecurityValue(instance_id, server_uri, security_mode, public_key, key) ==
  [instance_id |-> instance_id, server_uri |-> server_uri,
   security_mode |-> security_mode, public_key |-> public_key,
   secret_key |-> key]

\* A static lwm2m_security_value_t before anything is written to it.
ZeroSecurityValue == SecurityValue(0, <<>>, 0, <<>>, <<>>)

\* get_by_id(instance_id, status): the slot of the listed instance with this
\* id, 0 for NULL.
RECURSIVE get_by_id_from(_, _, _, _)
get_by_id_from(slots, list, n, instance_id) ==
  IF n > Len(list) THEN 0
  ELSE IF slots[list[n]].instance_id = instance_id THEN list[n]
  ELSE get_by_id_from(slots, list, n + 1, instance_id)

get_by_id(slots, list, instance_id) ==
  get_by_id_from(slots, list, 1, instance_id)

\* The position of slot i in the list, 0 if it is not in it.
ListPosition(list, i) ==
  IF \E k \in 1..Len(list) : list[k] = i
  THEN CHOOSE k \in 1..Len(list) : list[k] = i
  ELSE 0

\* list_remove(list, item) of the list library.
list_remove(list, item) == SelectSeq(list, LAMBDA x : x # item)

\* memset(&instances[i], 0, ...) and list_add(instances_list, ...) for slot
\* i.  The list is linked through the instances, so for a slot that is in
\* the list the memset cuts off what follows it, before list_add takes the
\* slot out and appends it.
ClearedAndAdded(list, i) ==
  IF ListPosition(list, i) = 0 THEN Append(list, i)
  ELSE Append(SubSeq(list, 1, ListPosition(list, i) - 1), i)

\* create_instance(instance_id, status): the slot of the new instance (0 for
\* NULL), the array, the list and what is written to *status.
create_instance(slots, list, instance_id) ==
  LET free == {i \in InstanceSlots :
                 slots[i].instance_id = LWM2M_OBJECT_INSTANCE_NONE}
      i == CHOOSE f \in free : \A g \in free : f <= g
  IN IF get_by_id(slots, list, instance_id) # 0
     THEN [instance |-> 0, slots |-> slots, list |-> list,
           status |-> "LWM2M_STATUS_OPERATION_NOT_ALLOWED"]
     ELSE IF free = {}
     THEN [instance |-> 0, slots |-> slots, list |-> list,
           status |-> "LWM2M_STATUS_SERVICE_UNAVAILABLE"]
     ELSE [instance |-> i,
           slots |-> [slots EXCEPT ![i] = [ZeroSecurityValue EXCEPT
                                             !.instance_id = instance_id]],
           list |-> ClearedAndAdded(list, i),
           status |-> "none"]

\* delete_instance(instance_id, status): the return value, the array and the
\* list.  LWM2M_OBJECT_INSTANCE_NONE stands for all instances.
delete_instance(slots, list, instance_id) ==
  LET listed == {list[k] : k \in 1..Len(list)}
      i == get_by_id(slots, list, instance_id)
      Freed(j) == [slots[j] EXCEPT !.instance_id = LWM2M_OBJECT_INSTANCE_NONE]
  IN IF instance_id = LWM2M_OBJECT_INSTANCE_NONE
     THEN [ret |-> 1,
           slots |-> [j \in InstanceSlots |->
                        IF j \in listed THEN Freed(j) ELSE slots[j]],
           list |-> <<>>]
     ELSE IF i # 0
     THEN [ret |-> 1, slots |-> [slots EXCEPT ![i] = Freed(i)],
           list |-> list_remove(list, i)]
     ELSE [ret |-> 0, slots |-> slots, list |-> list]

\* lwm2m_callback(object, ctx) for LWM2M_OP_WRITE: the instance after the
\* value was read into the resource.
lwm2m_callback(security, resource_id, value) ==
  CASE resource_id = "LWM2M_SECURITY_SERVER_URI_ID" ->
         [security EXCEPT !.server_uri = value]
    [] resource_id = "LWM2M_SECURITY_MODE_ID" ->
         [security EXCEPT !.security_mode = value]
    [] resource_id = "LWM2M_SECURITY_CLIENT_PKI_ID" ->
         [security EXCEPT !.public_key = value]
    [] resource_id = "LWM2M_SECURITY_KEY_ID" ->
         [security EXCEPT !.secret_key = value]
    [] OTHER -> security

\* Variant of IdentityNotMatching: any identity is taken for the entry's.
IdentityNotMatching_Never(info, e) == FALSE

\* "Searching for a specific identity": the identity asked for is not the
\* one of entry e, by length or by content.
IdentityNotMatching(info, e) ==
  /\ info.identity # <<>>
  /\ \/ Len(info.identity) # Len(e.public_key)
     \/ info.identity # e.public_key

\* The loop of the security object's get_psk_info from list position n on:
\* the slot of the entry it breaks at, 0 when it runs to the end (e == NULL).
\* ep is the local endpoint, which coap_endpoint_parse writes to and which
\* keeps its content from one round to the next.
RECURSIVE security_find(_, _, _, _, _, _, _)
security_find(slots, list, n, address_info, info, ep, stray) ==
  IF n > Len(list) THEN 0
  ELSE
    LET e == slots[list[n]]
        Checked(parsed) ==
          IF \/ parsed.result = 0
             \/ coap_endpoint_cmp(address_info, parsed.ep) = 0
             \/ IdentityNotMatching(info, e)
          THEN security_find(slots, list, n + 1, address_info, info,
                             parsed.ep, stray)
          ELSE list[n]
    IN IF Len(e.server_uri) = 0
            \/ e.security_mode # LWM2M_SECURITY_MODE_PSK
       THEN security_find(slots, list, n + 1, address_info, info, ep, stray)
       ELSE Checked(coap_endpoint_parse(e.server_uri, Len(e.server_uri), ep,
                                        stray))

\* get_psk_info(address_info, info) of the LwM2M security object, with
\* neither argument NULL: the return value and *info.  ep is what the
\* uninitialized local holds when the function is entered.
lwm2m_security_get_psk_info(slots, list, address_info, info, ep, stray) ==
  LET Found(e) ==
        IF e = 0 THEN [ret |-> 0, info |-> info]
        ELSE IF info.identity = <<>>
        THEN [ret |-> 1,
              info |-> [info EXCEPT !.identity = slots[e].public_key]]
        ELSE IF Len(slots[e].secret_key) = 0 THEN [ret |-> 0, info |-> info]
        ELSE [ret |-> 1, info |-> [info EXCEPT !.key = slots[e].secret_key]]
  IN Found(security_find(slots, list, 1, address_info, info, ep, stray))

\* keystore->coap_get_psk_info(session, &ks), if the key store has the
\* function: what it returns and ks afterwards.  Without the function
\* nothing is called, which reads as a return value of 0 here.
coap_get_psk_info(keystore, slots, list, session, ks, ep, stray) ==
  CASE keystore.coap_get_psk_info = "get_default_psk_info" ->
         get_default_psk_info(session, ks)
    [] keystore.coap_get_psk_info = "lwm2m_security_get_psk_info" ->
         lwm2m_security_get_psk_info(slots, list, session, ks, ep, stray)
    [] OTHER -> [ret |-> 0, info |-> ks]

\* dtls_alert_fatal_create(description): a negative return value made of the
\* alert level fatal (2) and the description.
DTLS_ALERT_ILLEGAL_PARAMETER == 47
DTLS_ALERT_INTERNAL_ERROR == 80
dtls_alert_fatal_create(description) == 0 - (2 * 256 + description)

\* Variant of CopyCredential: a credential that does not fit is cut to the
\* length of the buffer.
CopyCredential_Truncating(result, result_length, credential) ==
  IF result_length < Len(credential)
  THEN [ret |-> result_length,
        result |-> SubSeq(credential, 1, result_length)]
  ELSE [ret |-> Len(credential),
        result |-> credential
                     \o SubSeq(result, Len(credential) + 1, Len(result))]

\* The end of both cases of get_psk_info: the length check, memcpy into
\* result and the return value.
CopyCredential(result, result_length, credential) ==
  IF result_length < Len(credential)
  THEN [ret |-> dtls_alert_fatal_create(DTLS_ALERT_INTERNAL_ERROR),
        result |-> result]
  ELSE [ret |-> Len(credential),
        result |-> credential
                     \o SubSeq(result, Len(credential) + 1, Len(result))]

\* Variant of ResolveKeystore: the default key store stands in for a
\* registered one as well.
ResolveKeystore_AlwaysDefault(keystore) == default_key_store

\* keystore = dtls_keystore, replaced by the default key store if NULL.
ResolveKeystore(keystore) ==
  IF keystore = NO_KEYSTORE THEN default_key_store ELSE keystore

\* get_psk_info(ctx, session, type, id, id_len, result, result_length), the
\* callback of the DTLS library: the return value and the result buffer,
\* and with them what the credential source returned (source), which
\* get_psk_info itself does not look at.
get_psk_info(store, slots, list, session, type, id, result, result_length, ep, stray) ==
  LET keystore == ResolveKeystore(store)
      hinted == [ZeroPskEntry EXCEPT !.identity_hint = id]
      named == IF keystore.coap_get_psk_info # "NULL"
               THEN [ZeroPskEntry EXCEPT !.identity = id]
               ELSE ZeroPskEntry
      Outcome(r, source) ==
        [ret |-> r.ret, result |-> r.result, source |-> source]
      Failure(ret, source) ==
        [ret |-> ret, result |-> result, source |-> source]
      Identity(s) ==
        IF s.info.identity = <<>> THEN Failure(0, s.ret)
        ELSE Outcome(CopyCredential(result, result_length, s.info.identity),
                     s.ret)
      Key(s) ==
        IF s.info.key = <<>>
        THEN Failure(dtls_alert_fatal_create(DTLS_ALERT_ILLEGAL_PARAMETER),
                     s.ret)
        ELSE Outcome(CopyCredential(result, result_length, s.info.key),
                     s.ret)
  IN IF keystore = NO_KEYSTORE THEN Failure(0, 0)
     ELSE
       CASE type = "DTLS_PSK_IDENTITY" ->
              Identity(coap_get_psk_info(keystore, slots, list, session,
                                         hinted, ep, stray))
         [] type = "DTLS_PSK_KEY" ->
              Key(coap_get_psk_info(keystore, slots, list, session, named,
                                    ep, stray))
         [] OTHER ->
              Failure(dtls_alert_fatal_create(DTLS_ALERT_INTERNAL_ERROR), 0)

\* coap_set_keystore(keystore)
CoapSetKeystore(keystore) ==
  /\ dtls_keystore' = keystore
  /\ psk_op' = [type |-> "none"]
  /\ UNCHANGED <<instances, instances_list, pool_op>>
  /\ UNCHANGED non_keystore_vars

\* lwm2m_security_init(): the list is emptied, every instance is marked
\* free, and if the engine takes the object (added) the key store of the
\* security object is registered.
Lwm2mSecurityInit(added) ==
  /\ instances_list' = <<>>
  /\ instances' = [i \in InstanceSlots |->
                     [instances[i] EXCEPT
                        !.instance_id = LWM2M_OBJECT_INSTANCE_NONE]]
  /\ dtls_keystore' = IF added THEN key_store ELSE dtls_keystore
  /\ psk_op' = [type |-> "none"]
  /\ pool_op' = [op |-> "lwm2m_security_init"]
  /\ UNCHANGED non_keystore_vars

\* A call of create_instance or delete_instance as it is recorded.
PoolCall(op, instance_id, ret, status) ==
  [op |-> op, instance_id |-> instance_id, ret |-> ret, status |-> status,
   slots |-> instances, list |-> instances_list]

\* create_instance(instance_id, &status), called by the LwM2M engine.
CreateInstance(instance_id) ==
  LET Created(r) ==
        /\ instances' = r.slots
        /\ instances_list' = r.list
        /\ pool_op' = PoolCall("create_instance", instance_id, r.instance,
                               r.status)
  IN /\ Created(create_instance(instances, instances_list, instance_id))
     /\ UNCHANGED <<dtls_keystore, psk_op>>
     /\ UNCHANGED non_keystore_vars

\* delete_instance(instance_id, &status), called by the LwM2M engine.
DeleteInstance(instance_id) ==
  LET Deleted(r) ==
        /\ instances' = r.slots
        /\ instances_list' = r.list
        /\ pool_op' = PoolCall("delete_instance", instance_id, r.ret, "none")
  IN /\ Deleted(delete_instance(instances, instances_list, instance_id))
     /\ UNCHANGED <<dtls_keystore, psk_op>>
     /\ UNCHANGED non_keystore_vars

\* What a server writes to a new instance of the security object: server
\* URI, security mode, identity (client PKI resource) and secret key.
SecurityPayload(server_uri, security_mode, public_key, secret_key) ==
  [server_uri |-> server_uri, security_mode |-> security_mode,
   public_key |-> public_key, secret_key |-> secret_key]

SecurityPayloads ==
  { SecurityPayload(TextCoapsPort, LWM2M_SECURITY_MODE_PSK,
                    <<"a", "b">>, <<"k", "1">>),
    SecurityPayload(TextCoapsPort, LWM2M_SECURITY_MODE_PSK,
                    <<"a", "c">>, <<"k", "2", "2">>),
    SecurityPayload(TextCoapsPort, LWM2M_SECURITY_MODE_PSK,
                    <<"a", "b", "c">>, <<>>),
    SecurityPayload(TextCoapsOther, LWM2M_SECURITY_MODE_NOSEC,
                    <<"a", "b">>, <<"k", "3">>),
    SecurityPayload(TextCoaps, LWM2M_SECURITY_MODE_PSK,
                    <<"c", "d">>, <<"k", "4">>) }

\* A write that creates instance instance_id: create_instance, then
\* lwm2m_callback with LWM2M_OP_WRITE for each resource of the payload.
\* Nothing is written when no instance is created.
WriteSecurityInstance(instance_id, payload) ==
  LET created == create_instance(instances, instances_list, instance_id)
      i == created.instance
      uri == lwm2m_callback(created.slots[i], "LWM2M_SECURITY_SERVER_URI_ID",
                            payload.server_uri)
      mode == lwm2m_callback(uri, "LWM2M_SECURITY_MODE_ID",
                             payload.security_mode)
      pki == lwm2m_callback(mode, "LWM2M_SECURITY_CLIENT_PKI_ID",
                            payload.public_key)
      key == lwm2m_callback(pki, "LWM2M_SECURITY_KEY_ID", payload.secret_key)
  IN /\ instances_list' = created.list
     /\ instances' = IF i = 0 THEN instances
                     ELSE [created.slots EXCEPT ![i] = key]
     /\ psk_op' = [type |-> "none"]
     /\ UNCHANGED <<dtls_keystore, pool_op>>
     /\ UNCHANGED non_keystore_vars

\* A result buffer of result_length bytes, not yet written.
EmptyResult(result_length) == [i \in 1..result_length |-> "."]

\* The DTLS library calls get_psk_info during a handshake with `session'.
\* The call is recorded with its arguments, the return value and the buffer.
GetPskInfo(session, type, id, result_length, ep, stray) ==
  LET Called(r) ==
        [type |-> type, session |-> session, id |-> id,
         result_length |-> result_length,
         ret |-> r.ret, result |-> r.result, source |-> r.source]
  IN /\ psk_op' = Called(get_psk_info(dtls_keystore, instances,
                                      instances_list, session, type, id,
                                      EmptyResult(result_length),
                                      result_length, ep, stray))
     /\ UNCHANGED <<dtls_keystore, instances, instances_list, pool_op>>
     /\ UNCHANGED non_keystore_vars

\* The handshake goes on or is aborted: the call is off the record.
PskInfoReturn ==
  /\ psk_op' = [type |-> "none"]
  /\ UNCHANGED <<dtls_keystore, instances, instances_list, pool_op>>
  /\ UNCHANGED non_keystore_vars

InitKeystore ==
  /\ dtls_keystore = NO_KEYSTORE
  /\ instances = [i \in InstanceSlots |-> ZeroSecurityValue]
  /\ instances_list = <<>>
  /\ psk_op = [type |-> "none"]
  /\ pool_op = [op |-> "none"]

InitBlocking ==
  /\ pc = [p \in Procs |-> "idle"]
  /\ block_num = [p \in Procs |-> 0]
  /\ response = [p \in Procs |-> NO_RESPONSE]
  /\ transaction = [p \in Procs |-> NULL]
  /\ polled = [p \in Procs |-> FALSE]
  /\ more = 0
  /\ res_block = 0
  /\ block_error = 0
  /\ request = [p \in Procs |-> [mid |-> 0, block2 |-> NoBlock2]]
  /\ current_mid = 0
  /\ open = {}
  /\ sent = [p \in Procs |-> <<>>]
  /\ callbacks = [p \in Procs |-> <<>>]
  /\ rcvd = [p \in Procs |-> <<>>]
  /\ alloc_failed = [p \in Procs |-> FALSE]

InitRest ==
  /\ is_initialized = 0
  /\ restful_services = <<>>
  /\ rest_request = NO_REQUEST
  /\ status_log = <<>>
  /\ invoked = <<>>
  /\ subscribed = <<>>
  /\ rest_resource = NULL
  /\ rest_result = 0
  /\ rest_calls = <<>>
  /\ restful_periodic_services = <<>>
  /\ coap_timers = <<>>
  /\ expired = <<>>
  /\ handled = <<>>

Init ==
  InitBlocking /\ InitRest /\ InitTransport /\ InitParse /\ InitKeystore

\* One blocking call, run by Client, with every outcome of the transaction
\* layer: allocation success or failure, any response, no response.
Start == BlockingStart(Client)
Complete == \E resp \in Responses \cup {NO_RESPONSE} : BlockingCallback(Client, resp)
Resume == BlockingResume(Client)

NextBlocking == Start \/ Complete \/ Resume

SpecBlocking == Init /\ [][NextBlocking]_vars

\* Every transaction that was sent completes, with a response or by
\* exhausting its retransmissions, and the scheduler delivers the poll event
\* to the process.
SpecBlockingFair == SpecBlocking /\ WF_vars(Complete) /\ WF_vars(Resume)

\* One blocking call in a process that is also polled for other reasons than
\* the completion of the transaction.
OtherPoll == ProcessPoll(Client)

NextPolled == Start \/ Complete \/ Resume \/ OtherPoll

SpecPolled == Init /\ [][NextPolled]_vars

\* Two blocking calls, one in each process, interleaved at their yields.  The
\* peers answer with block 0 or block 1, more blocks announced, or with a
\* response without a Block2 option.
ConcurrentResponses ==
  { [has_block2 |-> TRUE, block2_num |-> 0, block2_more |-> 1],
    [has_block2 |-> TRUE, block2_num |-> 1, block2_more |-> 1],
    PlainResponse }
StartAny == \E p \in Procs : BlockingStart(p)
CompleteAny ==
  \E p \in Procs, resp \in ConcurrentResponses : BlockingCallback(p, resp)
ResumeAny == \E p \in Procs : BlockingResume(p)

NextConcurrent == StartAny \/ CompleteAny \/ ResumeAny

SpecConcurrent == Init /\ [][NextConcurrent]_vars

\* The REST engine: initialization, registrations and dispatches in any order.
InitEngine == RestInitEngine
Activate ==
  \E impl \in ResourceImpls, path \in ResourcePaths :
    RestActivateResource(impl, path)
Dispatch == \E req \in Requests : RestInvokeRestfulService(req)
Return == ServiceReturn

NextRest == InitEngine \/ Activate \/ Dispatch \/ Return

SpecRest == Init /\ [][NextRest]_vars

\* Periodic resources: initialization, activations of resources with every
\* combination of flag, descriptor, handler and period, and timer expiries,
\* in any order.
PeriodicPath == <<"a">>
\* The timers there can be: one per resource that activation arms.
TimerIds == 1..Cardinality({impl \in PeriodicImpls : ActivatesPeriodic(impl)})
\* PeriodicImpls are the resource objects of the application: each is
\* activated at most once.
Activated(resource) ==
  \/ \E k \in 1..Len(restful_services) : restful_services[k] = resource
  \/ \E i \in 1..Len(coap_timers) : coap_timers[i].user_data = resource
ActivatePeriodic ==
  \E impl \in PeriodicImpls :
    /\ ~Activated(BoundResource(impl, PeriodicPath))
    /\ RestActivateResource(impl, PeriodicPath)
Expire == \E i \in 1..Len(coap_timers) : TimerExpiry(i)

NextPeriodic == InitEngine \/ ActivatePeriodic \/ Expire

SpecPeriodic == Init /\ [][NextPeriodic]_vars

\* The registry through the life of the server: initialization (also
\* repeated), activation of resources not activated before, dispatches and
\* timer expiries.  Activations and expiries run between dispatches.
ActivateOther == rest_request = NO_REQUEST /\ ActivatePeriodic
ExpireIdle == rest_request = NO_REQUEST /\ Expire

NextRegistry == InitEngine \/ ActivateOther \/ Dispatch \/ Return \/ ExpireIdle

SpecRegistry == Init /\ [][NextRegistry]_vars

\* The timer service delivers every armed expiry.
SpecPeriodicFair ==
  SpecPeriodic /\ \A i \in TimerIds : WF_vars(TimerExpiry(i))

\* The transport: the engine process starts, then messages are sent,
\* datagrams arrive on either connection, endpoints are connected and asked
\* for their connection state, and the routing layer finds or loses its DAG,
\* in any order; the DTLS library sends its records.
EngineStart == \E conn_ok \in BOOLEAN, ctx_ok \in BOOLEAN :
                 CoapEngineStart(conn_ok, ctx_ok)
Send == \E ep \in Endpoints \cup {NO_ENDPOINT}, data \in Payloads :
          CoapSendMessage(ep, data)
NewData == \E dgram \in Datagrams, kept_secure \in {0, 1} :
             TcpipEvent(dgram, kept_secure)
IsConnected == \E ep \in Endpoints \cup {NO_ENDPOINT} :
                 CoapEndpointIsConnected(ep)
Connect == \E ep \in Endpoints : CoapEndpointConnect(ep)
Routing == \E dag \in {NULL, 1} : RplDagChange(dag)
LibraryOutput == \E session \in Endpoints, data \in DtlsRecords :
                   OutputToPeer(session, data)

NextTransport ==
  \/ EngineStart \/ Send \/ NewData \/ IsConnected \/ Connect \/ Routing
  \/ LibraryOutput

SpecTransport == Init /\ [][NextTransport]_vars

\* Endpoint texts: any of the texts is parsed into an endpoint object of any
\* content, again and again.
\* The calls are independent of each other: each one is looked at from the
\* state in which no call is on record.
NoEndpointCall == parse_text = <<>> /\ endpoint_op.op = "none"

Parse ==
  /\ NoEndpointCall
  /\ \E text \in ParseTexts, prior \in Endpoints, stray \in StrayStrings :
       CoapEndpointParse(text, prior, stray)

PrintParse ==
  /\ NoEndpointCall
  /\ \E e \in PrintedEndpoints, prior \in Endpoints, stray \in StrayStrings :
       CoapEndpointPrintParse(e, prior, stray)

Compare ==
  /\ NoEndpointCall
  /\ \E e1 \in Endpoints, e2 \in Endpoints : CoapEndpointCmp(e1, e2)

Copy ==
  /\ NoEndpointCall
  /\ \E d \in Endpoints, from \in Endpoints : CoapEndpointCopy(d, from)

Forget == ~NoEndpointCall /\ EndpointCallReturn

NextParse == Parse \/ PrintParse \/ Compare \/ Copy \/ Forget

SpecParse == Init /\ [][NextParse]_vars

\* The key store and the security object are set up while no lookup is on
\* record; each lookup is looked at on its own.
PskSessions ==
  { Endpoint(<<65152, 0, 0, 0, 0, 0, 0, 2>>, SERVER_LISTEN_SECURE_PORT, 1),
    Endpoint(<<65152, 0, 0, 0, 0, 0, 0, 2>>, SERVER_LISTEN_SECURE_PORT, 0),
    Endpoint(<<65152, 0, 0, 0, 0, 0, 0, 2>>, SERVER_LISTEN_PORT, 1),
    Endpoint(<<8193, 3512, 0, 0, 0, 0, 0, 1>>, SERVER_LISTEN_SECURE_PORT, 1) }
PskTypes == {"DTLS_PSK_IDENTITY", "DTLS_PSK_KEY", "DTLS_PSK_HINT"}
PskIds ==
  { <<>>, <<"a", "b">>, <<"a", "c">>, PSK_DEFAULT_IDENTITY,
    <<"C", "l", "i", "e", "n", "t", "_", "i", "d", "e", "n", "t", "i", "t",
      "x">> }
ResultLengths == {2, 16}
\* What the uninitialized local endpoint of the security object's lookup
\* may hold.
UninitEndpoints ==
  { Endpoint(<<0, 0, 0, 0, 0, 0, 0, 0>>, 0, 0),
    Endpoint(<<0, 0, 0, 0, 0, 0, 0, 0>>, 0, 1) }
InstanceIds == {0, 1}

SetKeystore ==
  /\ psk_op.type = "none"
  /\ \E keystore \in {key_store, empty_key_store, NO_KEYSTORE} :
       dtls_keystore # keystore /\ CoapSetKeystore(keystore)

SecurityInit ==
  /\ psk_op.type = "none"
  /\ instances_list = <<>>
  /\ \A i \in InstanceSlots : instances[i] = ZeroSecurityValue
  /\ \E added \in BOOLEAN : Lwm2mSecurityInit(added)

WriteSecurity ==
  /\ psk_op.type = "none"
  /\ \E instance_id \in InstanceIds, payload \in SecurityPayloads :
       WriteSecurityInstance(instance_id, payload)

Lookup ==
  /\ psk_op.type = "none"
  /\ \E session \in PskSessions, type \in PskTypes, id \in PskIds,
        result_length \in ResultLengths, ep \in UninitEndpoints,
        stray \in StrayStrings :
       GetPskInfo(session, type, id, result_length, ep, stray)

LookupReturn == psk_op.type # "none" /\ PskInfoReturn

NextKeystore ==
  SetKeystore \/ SecurityInit \/ WriteSecurity \/ Lookup \/ LookupReturn

SpecKeystore == Init /\ [][NextKeystore]_vars

\* The instance pool of the security object: initialization, and creations,
\* deletions and writes of instances as the LwM2M engine asks for them, with
\* any instance id a request can name.
PoolIds == {0, 1, 2, LWM2M_OBJECT_INSTANCE_NONE}
PoolInit == \E added \in BOOLEAN : Lwm2mSecurityInit(added)

\* The engine reaches create_instance and delete_instance through the
\* object that lwm2m_security_init has registered with it.
Registered == dtls_keystore = key_store

Create ==
  /\ Registered
  /\ \E instance_id \in PoolIds : CreateInstance(instance_id)

Delete ==
  /\ Registered
  /\ \E instance_id \in PoolIds : DeleteInstance(instance_id)

NextPool == PoolInit \/ Create \/ Delete \/ WriteSecurity

SpecPool == Init /\ [][NextPool]_vars

(***************************************************************************)
(* Properties of the blocking request engine (SpecBlocking).               *)
(***************************************************************************)
\* The block number a response carries (0 without a Block2 option).
BlockOf(resp) == resp.block2_num

\* The in-order N-block transfer: blocks 0..n-1, `more' set on all but the
\* last.
InOrderBlocks(n) ==
  [i \in 1..n |-> [has_block2 |-> TRUE, block2_num |-> i - 1,
                   block2_more |-> IF i < n THEN 1 ELSE 0]]

\* A step of p's protothread that resumes from the yield.
ResumeStep(p) == pc[p] = "waiting" /\ polled[p] /\ ~polled'[p]

\* ... on a response whose block number is not the cursor.
MismatchStep(p) ==
  /\ ResumeStep(p)
  /\ response[p] # NO_RESPONSE
  /\ response[p].has_block2
  /\ response[p].block2_num # block_num[p]

\* C1: the response callback is invoked with block numbers 0, 1, 2, ... in
\* this order: the i-th invocation of a call carries block i-1, so no block
\* is delivered twice and none out of order, whatever the responses,
\* timeouts and allocation outcomes are.
C1_CallbackOrder ==
  \A i \in 1..Len(callbacks[Client]) : BlockOf(callbacks[Client][i]) = i - 1

\* C1 witness: three blocks delivered although mismatched responses came in
\* between.
C1_Witness ==
  /\ Len(callbacks[Client]) = 3
  /\ block_error > 0
  /\ Len(rcvd[Client]) > 3

\* C2: once the blocks 0..N-1 have been delivered in order (more cleared on
\* the last) and the last one has been processed, the callback has been
\* invoked exactly N times with these blocks in order, exactly N requests
\* have been sent and the call has ended through PT_END (Done).
C2_InOrderTransfer ==
  \A n \in 1..(MaxBlockNum + 1) :
    (rcvd[Client] = InOrderBlocks(n) /\ ~polled[Client])
      => /\ pc[Client] = "ended"
         /\ callbacks[Client] = InOrderBlocks(n)
         /\ Len(sent[Client]) = n
         /\ ~alloc_failed[Client]

\* C2 witness: the three-block case, finished.
C2_Witness ==
  /\ rcvd[Client] = InOrderBlocks(3)
  /\ pc[Client] = "ended"
  /\ Len(callbacks[Client]) = 3

\* C3 (as claimed): a response with a block number other than the cursor
\* invokes no callback, leaves the cursor and counts one block error; while
\* the counter is below COAP_MAX_ATTEMPTS (and the response announces more
\* blocks) the request is re-issued for the same cursor, and once the counter
\* reaches COAP_MAX_ATTEMPTS the call terminates Failed with no request sent.
C3_MismatchFails ==
  [][MismatchStep(Client) =>
       /\ callbacks'[Client] = callbacks[Client]
       /\ block_num'[Client] = block_num[Client]
       /\ block_error' = block_error + 1
       /\ (block_error' < COAP_MAX_ATTEMPTS /\ more' # 0)
            => \/ /\ Len(sent'[Client]) = Len(sent[Client]) + 1
                  /\ sent'[Client][Len(sent'[Client])].block2.num
                       = block_num[Client]
               \/ alloc_failed'[Client]
       /\ block_error' >= COAP_MAX_ATTEMPTS
            => /\ pc'[Client] = "exited"
               /\ sent'[Client] = sent[Client]
    ]_vars

\* C4: a failed coap_new_transaction ends the call at once through PT_EXIT
\* (Failed): nothing is sent in that iteration, no transaction is left, and
\* afterwards the call takes no mid, sends nothing and invokes no callback.
C4_AllocFailureIsFatal ==
  [][/\ (alloc_failed'[Client] /\ ~alloc_failed[Client])
          => /\ pc'[Client] = "exited"
             /\ sent'[Client] = sent[Client]
             /\ transaction'[Client] = NULL
             /\ open' = open
     /\ alloc_failed[Client]
          => /\ pc'[Client] = "exited"
             /\ sent'[Client] = sent[Client]
             /\ callbacks'[Client] = callbacks[Client]
             /\ current_mid' = current_mid
    ]_vars

\* C4 witness: the allocation failed in a later iteration, after a block had
\* been delivered.
C4_Witness ==
  /\ alloc_failed[Client]
  /\ pc[Client] = "exited"
  /\ Len(callbacks[Client]) >= 1

\* C5: resuming with no response (the completion callback delivered NULL)
\* ends the call through PT_EXIT (Failed) without a callback invocation and
\* without another request, whatever cursor and error counter are.
C5_NoResponseFails ==
  [][(ResumeStep(Client) /\ response[Client] = NO_RESPONSE)
       => /\ pc'[Client] = "exited"
          /\ callbacks'[Client] = callbacks[Client]
          /\ sent'[Client] = sent[Client]
          /\ current_mid' = current_mid
          /\ open' = open
    ]_vars

\* C5 witness: the call failed on a missing response with the cursor
\* advanced and a block error counted.
C5_Witness ==
  /\ pc[Client] = "exited"
  /\ response[Client] = NO_RESPONSE
  /\ ~alloc_failed[Client]
  /\ block_num[Client] > 0
  /\ block_error > 0

(***************************************************************************)
(* Properties of the dispatcher (SpecRest).  A dispatch step is a step     *)
(* that records a request; its outcome is what it leaves in the dispatch   *)
(* variables, on the registry it ran on (which it leaves as it is).        *)
(***************************************************************************)
DispatchStep ==
  /\ rest_request = NO_REQUEST
  /\ rest_request' # NO_REQUEST

DispatchOutcome ==
  [request |-> rest_request, resource |-> rest_resource,
   invoked |-> invoked, status |-> status_log, subscribed |-> subscribed,
   result |-> rest_result, calls |-> rest_calls]

\* url continues the path p with a '/' right after p.
IsSubPath(p, url) ==
  /\ Len(url) > Len(p)
  /\ SubSeq(url, 1, Len(p)) = p
  /\ url[Len(p) + 1] = "/"

\* url continues the path p with something else than '/'.
IsExtensionWithoutSlash(p, url) ==
  /\ Len(url) > Len(p)
  /\ SubSeq(url, 1, Len(p)) = p
  /\ url[Len(p) + 1] # "/"

\* The matching rule as the specification words it.
Serves(r, url) ==
  \/ r.url = url
  \/ "HAS_SUB_RESOURCES" \in r.flags /\ IsSubPath(r.url, url)

\* The earliest registered resource that serves url (0: none does).
EarliestServing(rs, url) ==
  IF \E i \in 1..Len(rs) : Serves(rs[i], url)
  THEN CHOOSE i \in 1..Len(rs) :
         Serves(rs[i], url) /\ \A j \in 1..(i - 1) : ~Serves(rs[j], url)
  ELSE 0

\* The handler slot that belongs to a request method.
MethodHandler(method) ==
  CASE method = {"METHOD_GET"} -> "get_handler"
    [] method = {"METHOD_POST"} -> "post_handler"
    [] method = {"METHOD_PUT"} -> "put_handler"
    [] method = {"METHOD_DELETE"} -> "delete_handler"
    [] OTHER -> "none"

HasHandler(r, method) == MethodHandler(method) \in r.handlers

HandlerCall(i, method) == [resource |-> i, handler |-> MethodHandler(method)]

\* C6 as claimed, for one outcome o on the registry rs.
ExactPathInvokesIt(o, rs) ==
  \A i \in 1..Len(rs) :
    ( /\ rs[i].url = o.request.url
      /\ \A j \in 1..Len(rs) : j # i => rs[j].url # o.request.url
      /\ HasHandler(rs[i], o.request.method) )
    => /\ o.invoked = <<HandlerCall(i, o.request.method)>>
       /\ o.result = 1

\* C6 with the condition the code needs: nothing registered before the
\* resource serves the path through HAS_SUB_RESOURCES.
ExactPathFirstInvokesIt(o, rs) ==
  \A i \in 1..Len(rs) :
    ( /\ rs[i].url = o.request.url
      /\ \A j \in 1..Len(rs) : j # i => rs[j].url # o.request.url
      /\ \A j \in 1..(i - 1) : ~Serves(rs[j], o.request.url)
      /\ HasHandler(rs[i], o.request.method) )
    => /\ o.invoked = <<HandlerCall(i, o.request.method)>>
       /\ o.result = 1

\* C6 (as claimed): a request whose path equals the path of exactly one
\* resource, which has a handler for the method, invokes exactly that handler
\* once, no other, and returns 1, for every registry and registration order.
C6_ExactPathDispatch ==
  [][DispatchStep => ExactPathInvokesIt(DispatchOutcome', restful_services)]_vars

\* C6 (amended): the same, provided no resource registered before that one
\* has HAS_SUB_RESOURCES and a path of which the request path is a sub-path.
C6_ExactPathDispatchFirst ==
  [][DispatchStep
       => ExactPathFirstInvokesIt(DispatchOutcome', restful_services)]_vars

\* C6 witness: the exact resource is registered second, behind a resource
\* with sub-resources that does not serve the path, and its handler ran.
C6_Witness ==
  /\ Len(restful_services) = 2
  /\ rest_request # NO_REQUEST
  /\ rest_request.url = restful_services[2].url
  /\ restful_services[1].url # rest_request.url
  /\ "HAS_SUB_RESOURCES" \in restful_services[1].flags
  /\ invoked = <<HandlerCall(2, rest_request.method)>>
  /\ rest_result = 1

SubPathNeedsFlag(o, rs) ==
  LET url == o.request.url
  IN /\ \A i \in 1..Len(rs) :
          /\ (IsSubPath(rs[i].url, url) /\ o.resource = i)
               => "HAS_SUB_RESOURCES" \in rs[i].flags
          /\ (IsSubPath(rs[i].url, url)
                /\ \E k \in 1..Len(o.invoked) : o.invoked[k].resource = i)
               => "HAS_SUB_RESOURCES" \in rs[i].flags
          /\ IsExtensionWithoutSlash(rs[i].url, url)
               => /\ o.resource # i
                  /\ \A k \in 1..Len(o.invoked) : o.invoked[k].resource # i
     /\ ( /\ \E i \in 1..Len(rs) : IsSubPath(rs[i].url, url)
          /\ \A i \in 1..Len(rs) : ~Serves(rs[i], url) )
          => /\ o.status = <<"NOT_FOUND">>
             /\ o.invoked = <<>>
             /\ o.resource = NULL
             /\ o.result = 0

\* C7: a request for p/x is matched to the resource at p only if that
\* resource has HAS_SUB_RESOURCES; when the resource at p lacks the flag and
\* no other resource serves the path the outcome is Not-Found, no handler
\* and 0; a path that continues p without a '/' is never matched to p.
C7_SubPathNeedsFlag ==
  [][DispatchStep => SubPathNeedsFlag(DispatchOutcome', restful_services)]_vars

\* C7 witness: the only resource is at "a" without the flag, the request
\* is for "a/b" and was answered Not-Found.
C7_Witness ==
  /\ Len(restful_services) = 1
  /\ restful_services[1].url = <<"a">>
  /\ "HAS_SUB_RESOURCES" \notin restful_services[1].flags
  /\ rest_request # NO_REQUEST
  /\ rest_request.url = <<"a", "/", "b">>
  /\ status_log = <<"NOT_FOUND">>
  /\ rest_result = 0

MethodNotAllowed(o, rs) ==
  LET f == EarliestServing(rs, o.request.url)
  IN (f # 0 /\ ~HasHandler(rs[f], o.request.method))
       => /\ o.status = <<"METHOD_NOT_ALLOWED">>
          /\ o.invoked = <<>>
          /\ o.subscribed = <<>>
          /\ o.result = 0

\* C8: when the resource the path is matched to (the first that serves it)
\* has no handler for the method, the status is Method-Not-Allowed, no
\* handler of any resource and no observe hook is invoked, and 0 is returned.
C8_MethodNotAllowed ==
  [][DispatchStep => MethodNotAllowed(DispatchOutcome', restful_services)]_vars

\* C8 witness: an observable resource was matched and refused the method.
C8_Witness ==
  /\ rest_request # NO_REQUEST
  /\ rest_resource # NULL
  /\ rest_resource <= Len(restful_services)
  /\ "IS_OBSERVABLE" \in restful_services[rest_resource].flags
  /\ ~HasHandler(restful_services[rest_resource], rest_request.method)
  /\ status_log = <<"METHOD_NOT_ALLOWED">>
  /\ invoked = <<>>

EarliestWins(o, rs) ==
  LET url == o.request.url
      f == EarliestServing(rs, url)
  IN Cardinality({i \in 1..Len(rs) : Serves(rs[i], url)}) >= 2
       => /\ o.resource = f
          /\ \A k \in 1..Len(o.invoked) : o.invoked[k].resource = f
          /\ HasHandler(rs[f], o.request.method)
               => o.invoked = <<HandlerCall(f, o.request.method)>>
          /\ ~HasHandler(rs[f], o.request.method)
               => /\ o.status = <<"METHOD_NOT_ALLOWED">>
                  /\ o.invoked = <<>>
                  /\ o.result = 0

\* C9: when several resources serve the path only the earliest registered
\* one is considered: its handler is the one invoked, and when it has none
\* for the method the outcome is Method-Not-Allowed even though a later one
\* has.
C9_EarliestWins ==
  [][DispatchStep => EarliestWins(DispatchOutcome', restful_services)]_vars

\* C9 witness: two resources serve the path, the first has no handler for
\* the method, the second has, and the request was refused.
C9_Witness ==
  /\ Len(restful_services) = 2
  /\ rest_request # NO_REQUEST
  /\ Serves(restful_services[1], rest_request.url)
  /\ Serves(restful_services[2], rest_request.url)
  /\ ~HasHandler(restful_services[1], rest_request.method)
  /\ HasHandler(restful_services[2], rest_request.method)
  /\ status_log = <<"METHOD_NOT_ALLOWED">>
  /\ invoked = <<>>
  /\ rest_result = 0

MatchedAndPermitted(o, rs) ==
  LET f == EarliestServing(rs, o.request.url)
  IN /\ o.result \in {0, 1}
     /\ o.result = 1 <=> (f # 0 /\ HasHandler(rs[f], o.request.method))
     /\ f = 0 => /\ o.status = <<"NOT_FOUND">>
                 /\ o.invoked = <<>>
                 /\ o.result = 0
     /\ ~ /\ \E k \in 1..Len(o.status) : o.status[k] = "NOT_FOUND"
          /\ \E k \in 1..Len(o.status) : o.status[k] = "METHOD_NOT_ALLOWED"

\* C10: the dispatch returns 1 exactly when a resource served the path and
\* the one matched had a handler for the method; when none serves it the
\* status is Not-Found, no handler runs and 0 is returned; Not-Found and
\* Method-Not-Allowed are never both set for one request.
C10_MatchedAndPermitted ==
  [][DispatchStep
       => MatchedAndPermitted(DispatchOutcome', restful_services)]_vars

\* C10 witness: a request that was matched (to the second resource) and
\* permitted.
C10_Witness ==
  /\ rest_request # NO_REQUEST
  /\ rest_resource = 2
  /\ Len(restful_services) = 2
  /\ Serves(restful_services[2], rest_request.url)
  /\ ~Serves(restful_services[1], rest_request.url)
  /\ Len(invoked) = 1
  /\ status_log = <<>>
  /\ rest_result = 1

\* The observe hook rule for one outcome o on the registry rs: the calls of
\* the dispatch are the method handler and then, last, the hook.
ObserveHookRule(o, rs) ==
  LET f == EarliestServing(rs, o.request.url)
      permitted == f # 0 /\ HasHandler(rs[f], o.request.method)
      observable == f # 0 /\ "IS_OBSERVABLE" \in rs[f].flags
      hooks == {k \in 1..Len(o.calls) : o.calls[k].call = "subscription_handler"}
  IN /\ (permitted /\ observable)
          => /\ o.calls = << [call |-> MethodHandler(o.request.method),
                              resource |-> f],
                             [call |-> "subscription_handler", resource |-> f] >>
             /\ o.subscribed = <<f>>
     /\ ~(permitted /\ observable)
          => /\ hooks = {}
             /\ o.subscribed = <<>>
     /\ o.status # <<>>
          => /\ hooks = {}
             /\ o.subscribed = <<>>

\* C11: the observe hook is called once, as the last call of the dispatch
\* and after the method handler, when the matched resource is observable
\* and had a handler for the method; it is not called for a request that
\* got Not-Found or Method-Not-Allowed, nor for a resource without
\* IS_OBSERVABLE.
C11_ObserveHook ==
  [][DispatchStep => ObserveHookRule(DispatchOutcome', restful_services)]_vars

\* C11 witness: the second resource is observable and served a PUT: its
\* handler ran, then the hook.
C11_Witness ==
  /\ rest_request # NO_REQUEST
  /\ rest_resource = 2
  /\ rest_request.method = {"METHOD_PUT"}
  /\ Len(rest_calls) = 2
  /\ rest_calls[1].call = "put_handler"
  /\ rest_calls[2].call = "subscription_handler"
  /\ subscribed = <<2>>

(***************************************************************************)
(* Properties of periodic resources (SpecPeriodic).                        *)
(***************************************************************************)
\* A step of rest_activate_resource: the registry grows by one.
ActivateStep == Len(restful_services') = Len(restful_services) + 1

\* The four things a resource needs to be driven by a timer.
DeclaresPeriodic(r) ==
  /\ "IS_PERIODIC" \in r.flags
  /\ r.periodic # NO_PERIODIC
  /\ r.periodic.periodic_handler # NULL
  /\ r.periodic.period # 0

\* The timer of resource r, armed once.
ArmedTimerOf(r) ==
  [callback |-> "process_callback", user_data |-> r,
   interval |-> r.periodic.period, pending |-> 1]

\* C12: rest_activate_resource appends the resource, with its path, to the
\* registry in every case; it arms the periodic timer of the resource
\* (callback process_callback, user data the resource, the descriptor's
\* period) exactly when the resource has the IS_PERIODIC flag, a descriptor,
\* a handler and a non-zero period, and otherwise touches no timer.
C12_ActivationArms ==
  [][ActivateStep =>
       LET r == restful_services'[Len(restful_services')]
       IN /\ restful_services' = Append(restful_services, r)
          /\ r.url = PeriodicPath
          /\ DeclaresPeriodic(r)
               => /\ coap_timers' = Append(coap_timers, ArmedTimerOf(r))
                  /\ restful_periodic_services'
                       = Append(restful_periodic_services, r.periodic)
          /\ ~DeclaresPeriodic(r)
               => /\ coap_timers' = coap_timers
                  /\ restful_periodic_services' = restful_periodic_services
    ]_vars

\* C12 witness: a resource with a NULL periodic handler and then a periodic
\* resource of period 2 have been activated; only the second has a timer.
C12_Witness ==
  /\ Len(restful_services) = 2
  /\ restful_services[1].periodic # NO_PERIODIC
  /\ restful_services[1].periodic.periodic_handler = NULL
  /\ DeclaresPeriodic(restful_services[2])
  /\ coap_timers = <<ArmedTimerOf(restful_services[2])>>
  /\ coap_timers[1].interval = 2

\* The periodic resources of the registry, in list order.
RegisteredPeriodic == SelectSeq(restful_services, DeclaresPeriodic)

\* C13: whatever expiries have been delivered and handled, every periodic
\* resource that was activated has exactly one pending arm of its timer,
\* never none and never two, and the arm is for the period of the resource;
\* every periodic resource of the registry has such a timer.
C13_OnePendingArm ==
  LET n == Len(coap_timers)
      k == Len(RegisteredPeriodic)
  IN /\ \A i \in 1..n :
          /\ coap_timers[i].pending = 1
          /\ DeclaresPeriodic(coap_timers[i].user_data)
          /\ coap_timers[i].interval = coap_timers[i].user_data.periodic.period
          /\ coap_timers[i].callback = "process_callback"
     /\ k <= n
     /\ \A j \in 1..k : coap_timers[n - k + j].user_data = RegisteredPeriodic[j]

\* C13 witness: two periodic resources with different periods, the first
\* activated before rest_init_engine and the second after it; the timer of
\* the first has expired twice (its handler ran once), that of the second
\* once, and each has one pending arm.
C13_Witness ==
  /\ Len(coap_timers) = 2
  /\ Len(RegisteredPeriodic) = 1
  /\ coap_timers[1].interval # coap_timers[2].interval
  /\ expired = <<2, 1>>
  /\ handled[1] = 1
  /\ coap_timers[1].pending = 1
  /\ coap_timers[2].pending = 1

\* The timer service delivers an expiry of timer i in this step.
ExpiryStep(i) ==
  /\ i \in 1..Len(expired)
  /\ Len(expired') = Len(expired)
  /\ expired'[i] = expired[i] + 1

\* C14: on an expiry of the timer of a resource that still is periodic and
\* has a handler, the timer is armed again for the same period, and the
\* handler is called once if the engine is initialized and not at all if
\* it is not (is_initialized = 0).
C14_ExpiryInvokesAndRearms ==
  [][\A i \in TimerIds :
       (ExpiryStep(i) /\ DeclaresPeriodic(coap_timers[i].user_data))
         => /\ coap_timers'[i] = ArmedTimerOf(coap_timers[i].user_data)
            /\ coap_timers'[i].interval = coap_timers[i].interval
            /\ is_initialized # 0 => handled'[i] = handled[i] + 1
            /\ is_initialized = 0 => handled'[i] = handled[i]
            /\ \A j \in 1..Len(handled) : j # i => handled'[j] = handled[j]
    ]_vars

\* C14 witness: one timer has expired twice, first on the engine not yet
\* initialized (no handler call), then on the initialized engine.
C14_Witness ==
  /\ is_initialized = 1
  /\ expired = <<2>>
  /\ handled = <<1>>
  /\ coap_timers[1].pending = 1

(***************************************************************************)
(* Liveness of periodic resources (SpecPeriodicFair).                      *)
(***************************************************************************)
\* Timer i belongs to a periodic resource that was activated on the
\* initialized engine: the engine is initialized and the resource is in the
\* registry, which rest_init_engine emptied.
ActivatedOnInitialized(i) ==
  /\ is_initialized # 0
  /\ i \in 1..Len(coap_timers)
  /\ i > Len(coap_timers) - Len(restful_periodic_services)

\* C15: for a periodic resource activated on the initialized engine, with a
\* timer service that delivers every armed expiry, every call of the handler
\* is followed by another one (up to the MaxExpiries expiries the timer
\* service delivers here), and the handler has been called exactly once per
\* expiry.
C15_HandlerRecurs ==
  \A i \in TimerIds :
    /\ [](ActivatedOnInitialized(i) => handled[i] = expired[i])
    /\ \A n \in 0..(MaxExpiries - 1) :
         (ActivatedOnInitialized(i) /\ handled[i] = n)
           ~> (ActivatedOnInitialized(i) /\ handled[i] = n + 1)

\* C15 witness: the handler of a resource activated on the initialized
\* engine has run for each of MaxExpiries expiries.
C15_Witness ==
  /\ ActivatedOnInitialized(1)
  /\ Len(coap_timers) = 1
  /\ expired[1] = MaxExpiries
  /\ handled[1] = MaxExpiries

(***************************************************************************)
(* Properties of the transport (SpecTransport).                            *)
(***************************************************************************)
\* The last operation was coap_send_message / coap_endpoint_is_connected on
\* an endpoint / the arrival of a datagram.
SentMessage == transport_op.op = "coap_send_message"
AskedConnected ==
  /\ transport_op.op = "coap_endpoint_is_connected"
  /\ transport_op.arg # NO_ENDPOINT
GotDatagram == transport_op.op = "tcpip_event"

\* The one call of each sink for a message.
DtlsWriteOf(msg) == [session |-> msg.ep, data |-> msg.data]
UdpSendOf(msg) ==
  [conn |-> "udp_conn", ipaddr |-> msg.ep.ipaddr, port |-> msg.ep.port,
   data |-> msg.data]

\* C16 (as claimed): coap_send_message gives each message to exactly one
\* sink, dtls_write if the endpoint is secure and the UDP socket if it is
\* not; with a NULL endpoint it sends nothing.
C16_ExactlyOneSink ==
  SentMessage =>
    LET msg == transport_op.arg
    IN IF msg.ep = NO_ENDPOINT
       THEN udp_out = <<>> /\ dtls_out = <<>>
       ELSE IF msg.ep.secure # 0
         THEN dtls_out = <<DtlsWriteOf(msg)>> /\ udp_out = <<>>
       ELSE udp_out = <<UdpSendOf(msg)>> /\ dtls_out = <<>>

\* C16 (amended): a message for a secure endpoint goes to dtls_write alone
\* if there is a DTLS context and to no sink if there is none; a message
\* for a plaintext endpoint goes to the UDP socket alone; with a NULL
\* endpoint nothing is sent.
C16_SinkByEndpoint ==
  SentMessage =>
    LET msg == transport_op.arg
    IN IF msg.ep = NO_ENDPOINT
       THEN udp_out = <<>> /\ dtls_out = <<>>
       ELSE IF msg.ep.secure # 0
         THEN /\ udp_out = <<>>
              /\ dtls_context # NULL => dtls_out = <<DtlsWriteOf(msg)>>
              /\ dtls_context = NULL => dtls_out = <<>>
       ELSE udp_out = <<UdpSendOf(msg)>> /\ dtls_out = <<>>

\* C16 witness: a message for a secure endpoint went to dtls_write.
C16_Witness ==
  /\ SentMessage
  /\ transport_op.arg.ep # NO_ENDPOINT
  /\ transport_op.arg.ep.secure = 1
  /\ Len(dtls_out) = 1
  /\ udp_out = <<>>

\* C17 (as claimed): coap_endpoint_is_connected on a secure endpoint
\* returns true only if the peer of the endpoint has finished its handshake:
\* it returns false when there is no peer, when the handshake of the peer is
\* not done and when there is no DTLS context.
C17_SecureNeedsSession ==
  (AskedConnected /\ transport_op.arg.secure # 0)
    => (connected_result # 0
          => /\ dtls_context # NULL
             /\ dtls_get_peer(dtls_peers, transport_op.arg) = "connected")

\* C18: coap_endpoint_is_connected returns false for every endpoint,
\* plaintext or secure, while RPL is configured and there is no DAG; apart
\* from that it returns true for a plaintext endpoint whatever the DTLS
\* context and the peers are.
C18_PlaintextAndRouting ==
  AskedConnected =>
    /\ (rpl_conf # 0 /\ rpl_dag = NULL) => connected_result = 0
    /\ (~(rpl_conf # 0 /\ rpl_dag = NULL) /\ transport_op.arg.secure = 0)
         => connected_result = 1

\* C18 witness: RPL is configured and has a DAG, a DTLS handshake with the
\* peer at the address and port of a plaintext endpoint is under way, and
\* the plaintext endpoint is reported connected.
C18_Witness ==
  /\ AskedConnected
  /\ transport_op.arg.secure = 0
  /\ rpl_conf = 1
  /\ rpl_dag # NULL
  /\ dtls_context # NULL
  /\ dtls_get_peer(dtls_peers, transport_op.arg) = "handshake"
  /\ connected_result = 1

\* C19: every message given to coap_receive carries the secure flag of the
\* connection its datagram came in on.  A datagram on the UDP connection is
\* passed on once, with its source address and port and secure = 0, and not
\* to the DTLS handler.  A datagram on the DTLS connection goes to
\* dtls_handle_message only; coap_receive sees it only through the read
\* callback, for an application data record of a connected peer, with
\* secure = 1; a record that fails to decrypt is never delivered.
C19_SecureFlagMatchesChannel ==
  GotDatagram =>
    LET d == transport_op.arg
        src(secure) == Endpoint(d.srcipaddr, d.srcport, secure)
    IN IF d.conn = "udp_conn"
       THEN /\ coap_received = <<[ep |-> src(0), data |-> d.data]>>
            /\ dtls_in = <<>>
       ELSE /\ dtls_in = IF dtls_context # NULL
                         THEN <<[session |-> src(1), data |-> d.data]>>
                         ELSE <<>>
            /\ \/ coap_received = <<>>
               \/ /\ coap_received = <<[ep |-> src(1), data |-> d.data]>>
                  /\ d.record = "application_data"
                  /\ dtls_context # NULL
                  /\ dtls_get_peer(dtls_peers, src(1)) = "connected"
            /\ d.record = "invalid" => coap_received = <<>>

\* C19 witness: an application data record of a connected peer arrived on
\* the DTLS connection and was delivered with secure = 1.
C19_Witness ==
  /\ GotDatagram
  /\ transport_op.arg.conn = "dtls_conn"
  /\ Len(coap_received) = 1
  /\ coap_received[1].ep.secure = 1
  /\ Len(dtls_in) = 1

(***************************************************************************)
(* Properties of coap_endpoint_parse (SpecParse).                          *)
(***************************************************************************)
\* The texts of the form coap://[<addr>]:<port>, with their address and
\* port.
CoapPortCases ==
  { [text |-> TextCoapPort, addr |-> <<8193, 3512, 0, 0, 0, 0, 0, 1>>,
     port |-> 5683],
    [text |-> TextCoapHighPort, addr |-> <<65152, 0, 0, 0, 0, 0, 0, 2>>,
     port |-> 61616] }

\* C20 (as claimed): coap_endpoint_parse of coap://[<addr>]:<port> returns 1
\* and leaves address <addr>, port <port> (in network byte order) and
\* secure = 0 in the endpoint, whatever the endpoint held before.
C20_ParseCoapWithPort ==
  \A c \in CoapPortCases :
    parse_text = c.text
      => /\ parse_result = 1
         /\ parse_ep = Endpoint(c.addr, UIP_HTONS(c.port), 0)

\* The texts of the form coaps://[<addr>], with their address.
CoapsCases ==
  { [text |-> TextCoaps, addr |-> <<8193, 3512, 0, 0, 0, 0, 0, 1>>],
    [text |-> TextCoapsOther, addr |-> <<65152, 0, 0, 0, 0, 0, 0, 2>>] }

UnparsableTexts ==
  {TextSchemeNoBrackets, TextPortNoBrackets, TextNoBracket, TextBadAddress}

\* C22 (as claimed): coap_endpoint_parse returns 0 for a text with a scheme
\* prefix or a port but no bracketed address and for a text whose address
\* does not convert, and then the port and the secure flag of the endpoint
\* are what they were before the call.
C22_ParseFailureIsHard ==
  /\ parse_text \in UnparsableTexts => parse_result = 0
  /\ (parse_text # <<>> /\ parse_result = 0)
       => /\ parse_ep.port = parse_prior.port
          /\ parse_ep.secure = parse_prior.secure

\* The texts of the form coap://[<addr>] and the bare addresses, with their
\* address.
DefaultPlainCases ==
  { [text |-> TextCoap, addr |-> <<65152, 0, 0, 0, 0, 0, 0, 2>>],
    [text |-> TextCoapOther, addr |-> <<8193, 3512, 0, 0, 0, 0, 0, 1>>],
    [text |-> TextBare, addr |-> <<65152, 0, 0, 0, 0, 0, 0, 2>>],
    [text |-> TextBareOther, addr |-> <<8193, 3512, 0, 0, 0, 0, 0, 1>>] }

\* C23 (as claimed): coap_endpoint_parse of coap://[<addr>] without a port
\* and of a bare address <addr> returns 1 and leaves address <addr>, the
\* default plaintext port (in network byte order) and secure = 0 in the
\* endpoint.
C23_ParseDefaultPlain ==
  \A c \in DefaultPlainCases :
    parse_text = c.text
      => /\ parse_result = 1
         /\ parse_ep = Endpoint(c.addr, UIP_HTONS(COAP_DEFAULT_PORT), 0)

\* C24 (as claimed): coap_endpoint_parse of the text coap_endpoint_print
\* produces for an endpoint e returns 1 and leaves an endpoint that
\* coap_endpoint_cmp finds equal to e.
C24_PrintParseRoundTrip ==
  printed_ep # NO_ENDPOINT
    => /\ parse_result = 1
       /\ coap_endpoint_cmp(parse_ep, printed_ep) = 1

\* The fields of two endpoints that agree.
SameTriple(e1, e2) ==
  e1.ipaddr = e2.ipaddr /\ e1.port = e2.port /\ e1.secure = e2.secure

\* C25: coap_endpoint_cmp(e1, e2) returns 1 exactly when address, port and
\* secure flag of e1 and e2 agree, so endpoints that differ only in the
\* secure flag are unequal; it returns 1 for (e1, e1), the same for (e2, e1)
\* as for (e1, e2), and 1 for (d, s) after coap_endpoint_copy(d, s).
C25_CmpIsTripleEquality ==
  endpoint_op.op # "none"
    => /\ endpoint_op.result = 1 <=> SameTriple(endpoint_op.e1, endpoint_op.e2)
       /\ endpoint_op.self = 1
       /\ endpoint_op.swapped = endpoint_op.result
       /\ endpoint_op.session = endpoint_op.result
       /\ endpoint_op.op = "coap_endpoint_copy" => endpoint_op.result = 1

\* Two endpoints that differ in the secure flag only were compared.
C25_Witness ==
  /\ endpoint_op.op = "coap_endpoint_cmp"
  /\ endpoint_op.e1.ipaddr = endpoint_op.e2.ipaddr
  /\ endpoint_op.e1.port = endpoint_op.e2.port
  /\ endpoint_op.e1.secure # endpoint_op.e2.secure
  /\ endpoint_op.result = 0

(***************************************************************************)
(* Properties of the PSK lookup (SpecKeystore).                            *)
(***************************************************************************)
\* A lookup for an identity or for a key is on record.
CredentialRequest == psk_op.type \in {"DTLS_PSK_IDENTITY", "DTLS_PSK_KEY"}

\* The lookup on record gave no credential: nothing was copied into the
\* result buffer and no length was returned.
NoCredential ==
  /\ psk_op.ret <= 0
  /\ psk_op.result = EmptyResult(psk_op.result_length)

\* It gave this credential: its length is returned and the buffer starts
\* with all of it.
Returned(credential) ==
  /\ psk_op.ret = Len(credential)
  /\ Len(psk_op.result) >= Len(credential)
  /\ SubSeq(psk_op.result, 1, Len(credential)) = credential

\* It ended in this fatal alert, with the result buffer as it was.
FatalAlert(description) ==
  /\ psk_op.ret = dtls_alert_fatal_create(description)
  /\ psk_op.result = EmptyResult(psk_op.result_length)

\* The credential, if the result buffer has room for it, and the
\* internal-error alert if it has not.
ReturnedIfRoom(credential) ==
  IF psk_op.result_length < Len(credential)
  THEN FatalAlert(DTLS_ALERT_INTERNAL_ERROR)
  ELSE Returned(credential)

\* C26 (as claimed): with no credential source registered by
\* coap_set_keystore, a lookup for an identity and a lookup for a key give no
\* credential.
C26_NoSourceNoCredential ==
  (CredentialRequest /\ dtls_keystore = NO_KEYSTORE) => NoCredential

\* C26 (amended): with no credential source registered, get_psk_info falls
\* back to the compiled-in default pair.  A lookup for an identity gives the
\* default identity; a lookup for a key gives the default key if the identity
\* asked for is the default identity and the illegal-parameter alert if it is
\* any other; a credential that does not fit gives the internal-error alert.
C26_DefaultWhenUnregistered ==
  (CredentialRequest /\ dtls_keystore = NO_KEYSTORE)
    => IF psk_op.type = "DTLS_PSK_IDENTITY"
       THEN ReturnedIfRoom(PSK_DEFAULT_IDENTITY)
       ELSE IF psk_op.id = PSK_DEFAULT_IDENTITY
       THEN ReturnedIfRoom(PSK_DEFAULT_KEY)
       ELSE FatalAlert(DTLS_ALERT_ILLEGAL_PARAMETER)

\* With no source registered, the key of another identity than the default
\* one was asked for, with room for the default key.
C26_Witness ==
  /\ dtls_keystore = NO_KEYSTORE
  /\ psk_op.type = "DTLS_PSK_KEY"
  /\ psk_op.id = <<"a", "b">>
  /\ psk_op.result_length >= Len(PSK_DEFAULT_KEY)
  /\ FatalAlert(DTLS_ALERT_ILLEGAL_PARAMETER)

\* The endpoint a server URI of the form coap(s)://[<addr>] or
\* coap(s)://[<addr>]:<port> stands for: the address and port the parser
\* reads from it, and secure exactly for the scheme coaps.
EndpointOfUri(uri) ==
  LET parsed == coap_endpoint_parse(uri, Len(uri),
                                    Endpoint(<<0, 0, 0, 0, 0, 0, 0, 0>>, 0, 0),
                                    <<"?">>)
  IN Endpoint(parsed.ep.ipaddr, parsed.ep.port,
              IF strncmp(uri, CoapsPrefix, 6) = 0 THEN 1 ELSE 0)

\* The entries of the security object, in list order.
SecurityEntries == [n \in 1..Len(instances_list) |-> instances[instances_list[n]]]

\* C27 (as claimed): with the LwM2M security object as credential source, a
\* lookup for peer P gives no credential (no identity, no key) when no entry
\* of the object has a server URI that stands for an endpoint equal to P in
\* address, port and secure flag.
C27_OtherPeerNoCredential ==
  ( /\ CredentialRequest
    /\ dtls_keystore = key_store
    /\ \A n \in 1..Len(SecurityEntries) :
         ~SameTriple(EndpointOfUri(SecurityEntries[n].server_uri),
                     psk_op.session) )
    => NoCredential

\* The entries of the security object a key request for the peer on record
\* can be answered from: PSK entries whose server URI names the address and
\* the port of the peer.
EntriesForPeer ==
  { n \in 1..Len(SecurityEntries) :
      /\ Len(SecurityEntries[n].server_uri) # 0
      /\ SecurityEntries[n].security_mode = LWM2M_SECURITY_MODE_PSK
      /\ EndpointOfUri(SecurityEntries[n].server_uri).ipaddr
           = psk_op.session.ipaddr
      /\ EndpointOfUri(SecurityEntries[n].server_uri).port
           = psk_op.session.port }

\* The identity asked for is not the identity of any entry the source in
\* use knows for the peer: it differs from each in length or in bytes.
UnknownIdentity ==
  IF dtls_keystore = NO_KEYSTORE THEN psk_op.id # PSK_DEFAULT_IDENTITY
  ELSE IF dtls_keystore = key_store
  THEN \A n \in EntriesForPeer : SecurityEntries[n].public_key # psk_op.id
  ELSE TRUE

\* The key the lookup gave is the key of the identity asked for.
KeyOfRequestedIdentity ==
  IF dtls_keystore = NO_KEYSTORE
  THEN psk_op.id = PSK_DEFAULT_IDENTITY /\ Returned(PSK_DEFAULT_KEY)
  ELSE \E n \in 1..Len(SecurityEntries) :
         /\ SecurityEntries[n].public_key = psk_op.id
         /\ Returned(SecurityEntries[n].secret_key)

\* C28: a key request for an identity that differs, in length or in bytes,
\* from the identity of every entry known for the peer (from the default
\* identity, for the default source) gives no key: the credential source
\* returns 0 and get_psk_info returns the fatal illegal-parameter alert with
\* nothing copied; and a key that is given is never the key of another
\* identity than the one asked for.
C28_UnknownIdentityNoKey ==
  psk_op.type = "DTLS_PSK_KEY"
    => /\ UnknownIdentity
            => /\ FatalAlert(DTLS_ALERT_ILLEGAL_PARAMETER)
               /\ psk_op.id # <<>> => psk_op.source = 0
       /\ psk_op.ret > 0 => KeyOfRequestedIdentity

\* The security object has one entry, for this peer and with identity "ab",
\* and the key of identity "ac" was asked for.
C28_Witness ==
  /\ psk_op.type = "DTLS_PSK_KEY"
  /\ dtls_keystore = key_store
  /\ Len(SecurityEntries) = 1
  /\ SecurityEntries[1].public_key = <<"a", "b">>
  /\ SecurityEntries[1].secret_key # <<>>
  /\ EntriesForPeer = {1}
  /\ psk_op.session.secure = 1
  /\ psk_op.id = <<"a", "c">>
  /\ psk_op.source = 0
  /\ FatalAlert(DTLS_ALERT_ILLEGAL_PARAMETER)

\* The source in use resolved this identity, or this key, for the request
\* on record.
ResolvedIdentities ==
  IF dtls_keystore = NO_KEYSTORE THEN {PSK_DEFAULT_IDENTITY}
  ELSE {SecurityEntries[n].public_key : n \in 1..Len(SecurityEntries)}

ResolvedKeys ==
  IF dtls_keystore = NO_KEYSTORE
  THEN (IF psk_op.id = PSK_DEFAULT_IDENTITY THEN {PSK_DEFAULT_KEY} ELSE {})
  ELSE {SecurityEntries[n].secret_key :
          n \in {m \in 1..Len(SecurityEntries) :
                   SecurityEntries[m].public_key = psk_op.id}}

\* The bytes of the result buffer behind the first n are as they were.
RestUntouched(n) ==
  \A i \in (n + 1)..Len(psk_op.result) : psk_op.result[i] = "."

\* C29: in get_psk_info a resolved identity or key that is longer than
\* result_length gives the fatal internal-error alert and nothing is copied
\* into the result buffer; a credential is copied only as a whole, and the
\* length returned is then the length of the credential.
C29_NoTruncatedCredential ==
  CredentialRequest
    => /\ psk_op.ret <= 0 => psk_op.result = EmptyResult(psk_op.result_length)
       /\ psk_op.ret > 0
            => /\ psk_op.ret <= psk_op.result_length
               /\ RestUntouched(psk_op.ret)
       /\ (psk_op.type = "DTLS_PSK_IDENTITY" /\ psk_op.ret # 0)
            => \E c \in ResolvedIdentities : ReturnedIfRoom(c)
       /\ ( /\ psk_op.type = "DTLS_PSK_KEY"
            /\ psk_op.ret
                 # dtls_alert_fatal_create(DTLS_ALERT_ILLEGAL_PARAMETER) )
            => \E c \in ResolvedKeys : ReturnedIfRoom(c)

\* The only entry of the security object has a key of three bytes, and that
\* key was asked for with a result buffer of two.
C29_Witness ==
  /\ psk_op.type = "DTLS_PSK_KEY"
  /\ dtls_keystore = key_store
  /\ Len(SecurityEntries) = 1
  /\ SecurityEntries[1].public_key = psk_op.id
  /\ Len(SecurityEntries[1].secret_key) = 3
  /\ psk_op.result_length = 2
  /\ FatalAlert(DTLS_ALERT_INTERNAL_ERROR)

\* C30: the compiled-in default pair is a credential source only while no
\* source is registered: once coap_set_keystore has registered one, no lookup
\* gives the default identity or the default key, and a lookup the
\* registered source fails (it returns 0) gives no credential at all.
C30_DefaultOnlyWhenUnregistered ==
  (CredentialRequest /\ dtls_keystore # NO_KEYSTORE)
    => /\ ~Returned(PSK_DEFAULT_IDENTITY)
       /\ ~Returned(PSK_DEFAULT_KEY)
       /\ psk_op.source = 0 => NoCredential

\* The security object is registered and has no entry, and the key of the
\* default identity was asked for with room for the default key.
C30_Witness ==
  /\ dtls_keystore = key_store
  /\ SecurityEntries = <<>>
  /\ psk_op.type = "DTLS_PSK_KEY"
  /\ psk_op.id = PSK_DEFAULT_IDENTITY
  /\ psk_op.result_length >= Len(PSK_DEFAULT_KEY)
  /\ psk_op.source = 0
  /\ NoCredential

(***************************************************************************)
(* Properties of interleaved blocking calls (SpecConcurrent).              *)
(***************************************************************************)
\* A step in which the call of process q starts or resumes from its yield.
CallStep(q) == (pc[q] = "idle" /\ pc'[q] # "idle") \/ ResumeStep(q)

\* C31 (as claimed): while the call of one process is suspended at its
\* yield, a step that starts or resumes the call of another process leaves
\* the block-error count, the `more' flag and the received block number as
\* they are: these are the values the suspended call goes on with.
C31_StatePerCall ==
  [][\A p \in Procs :
       (pc[p] = "waiting" /\ \E q \in Procs \ {p} : CallStep(q))
         => /\ block_error' = block_error
            /\ more' = more
            /\ res_block' = res_block
    ]_vars

(***************************************************************************)
(* Transactions, terminal states and requests of one call (SpecBlocking).  *)
(***************************************************************************)
\* The call of p has terminated: PT_EXIT (Failed) or PT_END (Done).
Terminated(p) == pc[p] \in {"exited", "ended"}

\* The transactions the call of p has created and that await completion.
Outstanding(p) ==
  { i \in 1..Len(sent[p]) : sent[p][i].mid \in open }

LastProcessed(p) == rcvd[p][Len(rcvd[p])]

\* C33 (as claimed): the call ends through PT_END (Done) only when the
\* response it processed last carried the block the cursor asked for, with
\* `more' cleared, so that it was delivered to the callback as the last of
\* the blocks 0, 1, ...; after a mismatched response, and with the
\* block-error budget used up, the call does not end Done.
C33_DoneOnlyOnSuccess ==
  pc[Client] = "ended"
    => /\ rcvd[Client] # <<>>
       /\ callbacks[Client] # <<>>
       /\ callbacks[Client][Len(callbacks[Client])] = LastProcessed(Client)
       /\ BlockOf(LastProcessed(Client)) = Len(callbacks[Client]) - 1
       /\ LastProcessed(Client).block2_more = 0
       /\ Len(rcvd[Client]) = Len(callbacks[Client])
       /\ block_error < COAP_MAX_ATTEMPTS

\* A step in which the call of p hands a request to coap_send_transaction.
SendStep(p) == Len(sent'[p]) = Len(sent[p]) + 1

\* The message ids of the requests the call of p has sent.
SentMids(p) == { sent[p][i].mid : i \in 1..Len(sent[p]) }

\* C34: every request the call sends carries the message id coap_get_mid
\* gave in that iteration, which no earlier request of the call carried;
\* a request sent with cursor 0 carries no Block2 option, and a request sent
\* with a cursor above 0 carries Block2 with the cursor as block number,
\* `more' 0 and size REST_MAX_CHUNK_SIZE.  This includes the re-requests
\* after a block mismatch.
C34_FreshMidAndBlock2 ==
  [][SendStep(Client) =>
       LET r == sent'[Client][Len(sent'[Client])]
           cursor == block_num'[Client]
       IN /\ sent'[Client] = Append(sent[Client], r)
          /\ r.mid = current_mid + 1
          /\ current_mid' = r.mid
          /\ r.mid \notin SentMids(Client)
          /\ request'[Client] = r
          /\ cursor = 0 => ~r.block2.present
          /\ cursor > 0
               => r.block2 = [present |-> TRUE, num |-> cursor, more |-> 0,
                              size |-> REST_MAX_CHUNK_SIZE]
    ]_vars

\* C34 witness: block 1 was requested twice, the second time after a
\* mismatched response, each time with a message id of its own.
C34_Witness ==
  /\ Len(sent[Client]) = 3
  /\ ~sent[Client][1].block2.present
  /\ sent[Client][2].block2.num = 1
  /\ sent[Client][3].block2.num = 1
  /\ sent[Client][3].block2.size = REST_MAX_CHUNK_SIZE
  /\ Cardinality(SentMids(Client)) = 3
  /\ block_error = 1

(***************************************************************************)
(* Termination of one call (SpecBlockingFair).                             *)
(***************************************************************************)
\* The responses the call of p has processed: all it was handed, but for the
\* one whose poll event is still pending.
Processed(p) ==
  IF polled[p] THEN SubSeq(rcvd[p], 1, Len(rcvd[p]) - 1) ELSE rcvd[p]

\* How many of them were mismatched: responses that were not delivered to
\* the callback.
IsResponse(r) == r # NO_RESPONSE
Mismatched(p) == Len(SelectSeq(Processed(p), IsResponse)) - Len(callbacks[p])

\* C35: the block-error counter counts the mismatched responses of the whole
\* call (a delivered block does not clear it), a call processes at most
\* COAP_MAX_ATTEMPTS of them, and, every transaction completing and the peer
\* having finitely many blocks, a call that waits for a response terminates.
C35_TerminatesWithinBudget ==
  /\ [](/\ block_error = Mismatched(Client)
        /\ Mismatched(Client) <= COAP_MAX_ATTEMPTS)
  /\ (pc[Client] = "waiting") ~> Terminated(Client)

\* C35 witness: the call has terminated with the budget used up by two
\* mismatched responses that had a delivered block between them.
C35_Witness ==
  /\ Terminated(Client)
  /\ Mismatched(Client) = COAP_MAX_ATTEMPTS
  /\ Len(rcvd[Client]) >= 3
  /\ rcvd[Client][1].block2_num # 0
  /\ callbacks[Client] # <<>>
  /\ callbacks[Client][1] = rcvd[Client][2]

(***************************************************************************)
(* The registry over the life of the server (SpecRegistry).                *)
(***************************************************************************)
\* list starts with the entries of prefix, in the same order.
StartsWith(list, prefix) ==
  /\ Len(list) >= Len(prefix)
  /\ SubSeq(list, 1, Len(prefix)) = prefix

\* No entry occurs twice in list.
NoDuplicates(list) ==
  \A i, j \in 1..Len(list) : list[i] = list[j] => i = j

\* C36: once the engine is initialized it stays initialized and no step
\* takes a resource out of the registry or moves one: whatever is done
\* (activating another resource, rest_init_engine again, a dispatch, a timer
\* callback) the registry afterwards starts with the registry before, and no
\* resource is in it twice; a dispatch and a timer callback leave the
\* registry and the initialization flag as they are.
C36_RegistryOnlyGrows ==
  [][/\ is_initialized # 0
          => /\ is_initialized' = is_initialized
             /\ StartsWith(restful_services', restful_services)
             /\ NoDuplicates(restful_services')
     /\ (DispatchStep \/ \E i \in 1..Len(expired) : ExpiryStep(i))
          => UNCHANGED <<restful_services, is_initialized>>
    ]_vars

\* C36 witness: on the initialized engine two resources are registered, a
\* timer of the first has expired twice and a request has been dispatched to
\* the first.
C36_Witness ==
  /\ is_initialized # 0
  /\ Len(restful_services) = 2
  /\ restful_services[1] # restful_services[2]
  /\ Len(expired) >= 1
  /\ expired[1] = 2
  /\ rest_request # NO_REQUEST
  /\ rest_resource = 1

(***************************************************************************)
(* A call in a process that is polled for other reasons (SpecPolled).      *)
(***************************************************************************)
\* C37 (as claimed): whenever the call resumes from its yield, the
\* transaction it sent in this iteration has completed and the response it
\* examines is what that completion delivered (NULL included); resumed by a
\* poll event that came before the completion, it stays at the yield: it
\* processes no response, counts no error, invokes no callback and sends no
\* request.
C37_ResumeOnCompletionOnly ==
  [][ResumeStep(Client) =>
       /\ transaction[Client] \notin open
            => /\ Len(rcvd[Client]) = Len(sent[Client])
               /\ response[Client] = LastProcessed(Client)
       /\ transaction[Client] \in open
            => /\ pc'[Client] = "waiting"
               /\ UNCHANGED <<block_num, block_error, more, res_block,
                              callbacks, sent, current_mid, transaction>>
    ]_vars

(***************************************************************************)
(* Secure messages and the plaintext socket (SpecTransport).               *)
(***************************************************************************)
\* The message of the coap_send_message call on record is for a secure
\* endpoint.
SentSecureMessage ==
  /\ SentMessage
  /\ transport_op.arg.ep # NO_ENDPOINT
  /\ transport_op.arg.ep.secure # 0

\* C38: coap_send_message hands a message for a secure endpoint to no UDP
\* socket: it goes to dtls_write, or nowhere when there is no DTLS context.
\* Whatever is sent on the plaintext connection udp_conn is the message of a
\* coap_send_message call for an endpoint that is not secure, and the write
\* callback of the DTLS library sends on the DTLS connection only.
C38_SecureNeverPlain ==
  /\ SentSecureMessage
       => /\ udp_out = <<>>
          /\ dtls_context = NULL => dtls_out = <<>>
  /\ \A i \in 1..Len(udp_out) :
       udp_out[i].conn = "udp_conn"
         => /\ SentMessage
            /\ transport_op.arg.ep.secure = 0
            /\ udp_out[i].data = transport_op.arg.data
  /\ transport_op.op = "output_to_peer"
       => \A i \in 1..Len(udp_out) : udp_out[i].conn = "dtls_conn"

\* C38 witness: a message for a secure endpoint was given to
\* coap_send_message while there was no DTLS context, and went nowhere.
C38_Witness ==
  /\ SentSecureMessage
  /\ udp_conn # NULL
  /\ dtls_context = NULL
  /\ udp_out = <<>>
  /\ dtls_out = <<>>

\* The entries of the security object the lookup on record may answer from:
\* PSK entries with a server URI that stands for the peer and, in a key
\* request that names an identity, with that identity.
EligibleEntries ==
  { n \in 1..Len(SecurityEntries) :
      /\ Len(SecurityEntries[n].server_uri) # 0
      /\ SecurityEntries[n].security_mode = LWM2M_SECURITY_MODE_PSK
      /\ SameTriple(EndpointOfUri(SecurityEntries[n].server_uri),
                    psk_op.session)
      /\ (psk_op.type = "DTLS_PSK_KEY" /\ psk_op.id # <<>>)
           => SecurityEntries[n].public_key = psk_op.id }

\* The first of them in list order.
FirstEligible == CHOOSE n \in EligibleEntries : \A m \in EligibleEntries : n <= m

\* The lookup on record was answered from entry e of the security object.
\* A request that names no identity is an identity request to the security
\* object: only the identity is filled in, so that the DTLS callback has the
\* identity to return in an identity lookup and no key in a key lookup.
AnsweredFrom(e) ==
  IF psk_op.type = "DTLS_PSK_IDENTITY" \/ psk_op.id = <<>>
  THEN /\ psk_op.source = 1
       /\ (psk_op.type = "DTLS_PSK_IDENTITY" /\ e.public_key # <<>>)
            => ReturnedIfRoom(e.public_key)
       /\ psk_op.type = "DTLS_PSK_KEY"
            => FatalAlert(DTLS_ALERT_ILLEGAL_PARAMETER)
  ELSE IF e.secret_key = <<>>
  THEN psk_op.source = 0 /\ FatalAlert(DTLS_ALERT_ILLEGAL_PARAMETER)
  ELSE psk_op.source = 1 /\ ReturnedIfRoom(e.secret_key)

\* C39 (as claimed): with the security object as credential source, a lookup
\* gets a credential only from an entry with a non-empty server URI, mode
\* PSK, a URI that stands for the peer and, when an identity is supplied,
\* that identity; it is answered from the first such entry in list order,
\* with the identity of the entry for an identity request and its key for a
\* key request, which fails when the key is empty; without such an entry
\* the source returns 0; and the lookup leaves the entries as they are.
C39_FirstMatchingEntry ==
  /\ [](( CredentialRequest /\ dtls_keystore = key_store )
          => IF EligibleEntries = {} THEN psk_op.source = 0
             ELSE AnsweredFrom(SecurityEntries[FirstEligible]))
  /\ [][psk_op'.type \in {"DTLS_PSK_IDENTITY", "DTLS_PSK_KEY"}
          => UNCHANGED <<instances, instances_list>>]_vars

\* The slots of the pool that are taken, and the slots that are listed.
TakenSlots ==
  {i \in InstanceSlots : instances[i].instance_id # LWM2M_OBJECT_INSTANCE_NONE}
ListedSlots == {instances_list[k] : k \in 1..Len(instances_list)}

\* The listed instances have pairwise distinct ids, are at most MAX_COUNT,
\* and are exactly the slots of the pool whose id is not
\* LWM2M_OBJECT_INSTANCE_NONE.
PoolInvariant ==
  /\ \A k, l \in 1..Len(instances_list) :
       k # l => instances[instances_list[k]].instance_id
                  # instances[instances_list[l]].instance_id
  /\ Len(instances_list) <= MAX_COUNT
  /\ ListedSlots = TakenSlots

\* A step that is a call of create_instance or delete_instance, and what
\* the call found: the id is in use, the pool is full.
PoolStep(op) == pool_op' # pool_op /\ pool_op'.op = op
InUse(instance_id) ==
  \E i \in TakenSlots : instances[i].instance_id = instance_id
PoolFull == TakenSlots = InstanceSlots
PoolUnchanged == UNCHANGED <<instances, instances_list>>

\* C40 (as claimed): in the pool of the registered security object, the
\* listed instances always have pairwise distinct ids, are at most MAX_COUNT
\* and are exactly the slots whose id is not LWM2M_OBJECT_INSTANCE_NONE;
\* create_instance with an id in use returns NULL with status
\* OPERATION_NOT_ALLOWED, and with a full pool NULL with status
\* SERVICE_UNAVAILABLE, and neither changes the pool; delete_instance of
\* an id that is not in use returns 0 and changes nothing; and a create
\* with an unused id succeeds whenever a slot is free, a deleted one
\* included, giving a listed instance with that id.
C40_PoolConsistent ==
  /\ [](Registered => PoolInvariant)
  /\ [][PoolStep("create_instance") =>
          IF InUse(pool_op'.instance_id)
          THEN /\ pool_op'.ret = 0
               /\ pool_op'.status = "LWM2M_STATUS_OPERATION_NOT_ALLOWED"
               /\ PoolUnchanged
          ELSE IF PoolFull
          THEN /\ pool_op'.ret = 0
               /\ pool_op'.status = "LWM2M_STATUS_SERVICE_UNAVAILABLE"
               /\ PoolUnchanged
          ELSE /\ pool_op'.ret \in InstanceSlots
               /\ pool_op'.ret \in ListedSlots'
               /\ instances'[pool_op'.ret].instance_id = pool_op'.instance_id
               /\ \A i \in TakenSlots : instances'[i] = instances[i]]_vars
  /\ [][( /\ PoolStep("delete_instance")
          /\ pool_op'.instance_id # LWM2M_OBJECT_INSTANCE_NONE
          /\ ~InUse(pool_op'.instance_id) )
          => pool_op'.ret = 0 /\ PoolUnchanged]_vars

====
